---- MODULE Spec2Model ----
(***************************************************************************)
(* Verification model of the Dealink backend (price comparison service).   *)
(*                                                                         *)
(* Strings of the program are TLA+ strings; Python's slicing, lower(),     *)
(* strip() and the `in` substring test are modelled character by           *)
(* character.  Money is counted in cents, a savings percentage in tenths   *)
(* of a percent, an Optional value v as <<v>> and None as <<>>.  A Python  *)
(* dict is a function whose DOMAIN is the set of its keys.                 *)
(***************************************************************************)
EXTENDS Integers, Sequences, FiniteSets, TLC

VARIABLES
    dd_matches,     \* _deduplicate: the argument list
    dd_unique,      \* _deduplicate: the returned list
    dd_pc,          \* "call" before the call, "done" after it
    ck_args,        \* build_product_cache_key: [brand, model, gtin, asin, title]
    ck_key,         \* build_product_cache_key: the returned key
    ck_pc,          \* "call" before the call, "done" after it
    fr_call,        \* find_real_prices: <<ctx, search_locations, provider behaviours>>
    fr_result,      \* find_real_prices: what the call did, <<>> before it
    fr_pc,          \* "call" before the call, "done" after it
    _cache,         \* serpapi_service._cache: key -> [timestamp, data]
    has_serpapi_key,    \* settings.has_serpapi_key
    redis_connected,    \* CacheService._redis is set (Redis reachable at start-up)
    redis_store,        \* the Redis server: key -> [data, expires]
    memory_cache,       \* CacheService._memory_cache
    memory_timestamps,  \* CacheService._memory_timestamps
    now,                \* time.time(), in ticks
    pc,                 \* position of the request being served
    req,                \* the request being served / last served
    eng,                \* the locals a handler keeps across an await
    resp,               \* the response to req, <<>> until it is sent
    prev,               \* the /search exchange served directly before req; for
                        \* CacheService alone, what set last stored per key
    fn_call,        \* a helper function under test: [fn, args], <<>> when none
    fn_result,      \* what the call returned, <<>> before it
    fn_pc,          \* "call" before the call, "done" after it
    loop_co,        \* the event loop: the coroutine of each request slot
    loop_running    \* the slot whose coroutine holds the loop thread, 0 when free

dedupVars == <<dd_matches, dd_unique, dd_pc>>
keyVars == <<ck_args, ck_key, ck_pc>>
engineVars == <<fr_call, fr_result, fr_pc, _cache>>
cacheVars == <<redis_store, memory_cache, memory_timestamps>>
apiVars == <<has_serpapi_key, redis_connected, cacheVars, now, pc, req, eng, resp, prev>>
fnVars == <<fn_call, fn_result, fn_pc>>
loopVars == <<loop_co, loop_running>>
vars == <<dedupVars, keyVars, engineVars, apiVars, fnVars, loopVars>>

\* the values of a component's variables while another component is exercised
IdleDedup == dd_matches = <<>> /\ dd_unique = <<>> /\ dd_pc = "idle"

IdleKey ==
    /\ ck_args = [brand |-> "", model |-> "", gtin |-> "", asin |-> "", title |-> ""]
    /\ ck_key = ""
    /\ ck_pc = "idle"

IdleEngine == fr_call = <<>> /\ fr_result = <<>> /\ fr_pc = "idle" /\ _cache = <<>>

IdleFn == fn_call = <<>> /\ fn_result = <<>> /\ fn_pc = "idle"

IdleLoop == loop_co = <<>> /\ loop_running = 0

IdleApi ==
    /\ has_serpapi_key = FALSE
    /\ redis_connected = FALSE
    /\ redis_store = <<>>
    /\ memory_cache = <<>>
    /\ memory_timestamps = <<>>
    /\ now = 0
    /\ pc = "off"
    /\ req = <<>>
    /\ eng = <<>>
    /\ resp = <<>>
    /\ prev = <<>>

(***************************************************************************)
(* Python string primitives                                                *)
(***************************************************************************)

\* s[i] of a non-empty string, 1-based
CharAt(s, i) == SubSeq(s, i, i)

\* s[:n]
Prefix(s, n) == IF Len(s) <= n THEN s ELSE SubSeq(s, 1, n)

UpperLetters == "ABCDEFGHIJKLMNOPQRSTUVWXYZ"
LowerLetters == "abcdefghijklmnopqrstuvwxyz"

\* str.lower() of one character (ASCII)
LowerChar(c) ==
    CASE c = "A" -> "a"
      [] c = "B" -> "b"
      [] c = "C" -> "c"
      [] c = "D" -> "d"
      [] c = "E" -> "e"
      [] c = "F" -> "f"
      [] c = "G" -> "g"
      [] c = "H" -> "h"
      [] c = "I" -> "i"
      [] c = "J" -> "j"
      [] c = "K" -> "k"
      [] c = "L" -> "l"
      [] c = "M" -> "m"
      [] c = "N" -> "n"
      [] c = "O" -> "o"
      [] c = "P" -> "p"
      [] c = "Q" -> "q"
      [] c = "R" -> "r"
      [] c = "S" -> "s"
      [] c = "T" -> "t"
      [] c = "U" -> "u"
      [] c = "V" -> "v"
      [] c = "W" -> "w"
      [] c = "X" -> "x"
      [] c = "Y" -> "y"
      [] c = "Z" -> "z"
      [] OTHER -> c

RECURSIVE Lower(_)
Lower(s) == IF Len(s) = 0 THEN s ELSE LowerChar(CharAt(s, 1)) \o Lower(Tail(s))

IsSpace(c) == c = " "

RECURSIVE LStrip(_)
LStrip(s) == IF Len(s) > 0 /\ IsSpace(CharAt(s, 1)) THEN LStrip(Tail(s)) ELSE s

RECURSIVE RStrip(_)
RStrip(s) ==
    IF Len(s) > 0 /\ IsSpace(CharAt(s, Len(s)))
    THEN RStrip(SubSeq(s, 1, Len(s) - 1))
    ELSE s

\* str.strip()
Strip(s) == LStrip(RStrip(s))

\* `p in s`
Contains(s, p) ==
    \E i \in 1..(Len(s) - Len(p) + 1) : SubSeq(s, i, i + Len(p) - 1) = p

\* s.startswith(p)
StartsWith(s, p) == Len(p) <= Len(s) /\ SubSeq(s, 1, Len(p)) = p

\* c * n
RECURSIVE Repeat(_, _)
Repeat(c, n) == IF n = 0 THEN "" ELSE c \o Repeat(c, n - 1)

(***************************************************************************)
(* Lists                                                                   *)
(***************************************************************************)

Range(s) == {s[i] : i \in DOMAIN s}

\* list.sort(key=lambda x: x.total): stable, ascending
RECURSIVE InsertByTotal(_, _)
InsertByTotal(sorted, m) ==
    IF sorted = <<>> THEN <<m>>
    ELSE IF sorted[Len(sorted)].total <= m.total THEN Append(sorted, m)
    ELSE Append(InsertByTotal(SubSeq(sorted, 1, Len(sorted) - 1), m), sorted[Len(sorted)])

RECURSIVE SortByTotalFrom(_, _)
SortByTotalFrom(acc, rest) ==
    IF rest = <<>> THEN acc
    ELSE SortByTotalFrom(InsertByTotal(acc, Head(rest)), Tail(rest))

SortByTotal(ms) == SortByTotalFrom(<<>>, ms)

IsSortedByTotal(ms) == \A i \in 1..(Len(ms) - 1) : ms[i].total <= ms[i + 1].total

(***************************************************************************)
(* serpapi_service._deduplicate                                            *)
(***************************************************************************)

\* match.title[:40]
DedupTitleChars == 40

\* a dedup key that ignores the platform
DedupKeyTitleOnly(m) == Strip(Lower(Prefix(m.title, DedupTitleChars)))

\* f"{match.platform}|{match.title[:40].lower().strip()}"
DedupKey(m) == m.platform \o "|" \o Strip(Lower(Prefix(m.title, DedupTitleChars)))

RECURSIVE DedupScan(_, _, _)
DedupScan(unique, seen_keys, rest) ==
    IF rest = <<>> THEN unique
    ELSE LET match == Head(rest)
             dedup_key == DedupKey(match)
         IN  IF dedup_key \notin seen_keys
             THEN DedupScan(Append(unique, match), seen_keys \cup {dedup_key}, Tail(rest))
             ELSE DedupScan(unique, seen_keys, Tail(rest))

_deduplicate(matches) == SortByTotal(DedupScan(<<>>, {}, matches))

(***************************************************************************)
(* cache_service: key construction                                         *)
(***************************************************************************)

\* hashlib.md5(raw.encode()).hexdigest(): the digest is taken to be free of
\* collisions, so it is written as a tagged copy of the text it digests
Md5Hex(raw) == "md5<" \o raw \o ">"

\* ":".join(f"{k}={v}" for k, v in sorted_items if v)
RECURSIVE JoinItems(_, _)
JoinItems(items, first) ==
    IF items = <<>> THEN ""
    ELSE LET k == Head(items)[1]
             v == Head(items)[2]
         IN  IF v = "" THEN JoinItems(Tail(items), first)
             ELSE (IF first THEN "" ELSE ":") \o k \o "=" \o v
                      \o JoinItems(Tail(items), FALSE)

\* CacheService._make_key(prefix, **kwargs); sorted_items is sorted(kwargs.items())
_make_key(prefix, sorted_items) ==
    "dealink:" \o prefix \o ":" \o Md5Hex(prefix \o ":" \o JoinItems(sorted_items, TRUE))

GtinMinChars == 8
AsinChars == 10
KeyTitleChars == 100

\* the fallback key: brand, model and title[:100], each lower-cased and trimmed
FallbackKey(brand, model, title) ==
    _make_key("prices",
              << <<"brand", Strip(Lower(brand))>>,
                 <<"model", Strip(Lower(model))>>,
                 <<"title", Strip(Lower(Prefix(title, KeyTitleChars)))>> >>)

\* a key construction that tries the ASIN before the GTIN
KeyAsinFirst(brand, model, gtin, asin, title) ==
    IF asin # "" /\ Len(asin) = AsinChars
    THEN _make_key("prices", << <<"asin", Strip(asin)>> >>)
    ELSE IF gtin # "" /\ Len(gtin) >= GtinMinChars
    THEN _make_key("prices", << <<"gtin", Strip(gtin)>> >>)
    ELSE FallbackKey(brand, model, title)

\* build_product_cache_key; an absent (None) argument is the empty string
build_product_cache_key(brand, model, gtin, asin, title) ==
    IF gtin # "" /\ Len(gtin) >= GtinMinChars
    THEN _make_key("prices", << <<"gtin", Strip(gtin)>> >>)
    ELSE IF asin # "" /\ Len(asin) = AsinChars
    THEN _make_key("prices", << <<"asin", Strip(asin)>> >>)
    ELSE FallbackKey(brand, model, title)

(***************************************************************************)
(* Specification of _deduplicate over bounded argument lists               *)
(***************************************************************************)

MaxDedupInput == 3

P39 == Repeat("x", 39)

\* argument entries around the 40-character boundary of the title
DedupLongTitled ==
    { [title |-> P39 \o "ab", total |-> 2],     \* 41 characters
      [title |-> P39 \o "Ac", total |-> 1],     \* the same first 40, lower-cased
      [title |-> P39 \o " b", total |-> 1],     \* the 40th character is a blank
      [title |-> P39, total |-> 2] }            \* the title above, trimmed

DedupPlatforms == {"ebay", "amazon"}

\* the last two differ in platform and in title and yet give one key text
DedupMatches ==
    { [platform |-> p, title |-> t.title, total |-> t.total] :
          p \in DedupPlatforms, t \in DedupLongTitled }
    \cup { [platform |-> "ebay", title |-> P39 \o "ab", total |-> 1],
           [platform |-> "ebay", title |-> "x|y", total |-> 1],
           [platform |-> "ebay|x", title |-> "y", total |-> 2] }

DedupInputs ==
    UNION { [1..n -> DedupMatches] : n \in 0..MaxDedupInput }

InitDedup ==
    /\ dd_matches \in DedupInputs
    /\ dd_unique = <<>>
    /\ dd_pc = "call"
    /\ IdleKey
    /\ IdleEngine
    /\ IdleApi
    /\ IdleFn /\ IdleLoop

CallDeduplicate ==
    /\ dd_pc = "call"
    /\ dd_unique' = _deduplicate(dd_matches)
    /\ dd_pc' = "done"
    /\ UNCHANGED <<fnVars, loopVars, dd_matches, keyVars, engineVars, apiVars>>

NextDedup == CallDeduplicate

SpecDedup == InitDedup /\ [][NextDedup]_vars

(***************************************************************************)
(* C8: _deduplicate                                                        *)
(***************************************************************************)

\* the group of the claim: platform and the first 40 lower-cased characters
GroupOf(m) == <<m.platform, Lower(Prefix(m.title, DedupTitleChars))>>

\* the group the code forms: the text "platform|prefix" with the prefix trimmed
TrimmedKeyText(m) ==
    m.platform \o "|" \o Strip(Lower(Prefix(m.title, DedupTitleChars)))

T99 == Repeat("t", 99)

KeyGtins == {"", "0810043", "08100433", " 0810043", "0810043377166"}
KeyAsins == {"", "B08XYZ123", "B08XYZ1234", "B08XYZ1235", "B08XYZ12345"}
KeyBrands == {"", "Sony", "LEVOIT"}
KeyModels == {"", "WH-1000XM5"}
KeyTitles == {"", "Sony WH-1000XM5", T99 \o "ab", T99 \o "ac"}

KeyArgs ==
    [brand : KeyBrands, model : KeyModels, gtin : KeyGtins, asin : KeyAsins,
     title : KeyTitles]

InitKey ==
    /\ ck_args \in KeyArgs
    /\ ck_key = ""
    /\ ck_pc = "call"
    /\ IdleDedup
    /\ IdleEngine
    /\ IdleApi
    /\ IdleFn /\ IdleLoop

CallBuildKey ==
    /\ ck_pc = "call"
    /\ ck_key' = build_product_cache_key(ck_args.brand, ck_args.model, ck_args.gtin,
                                         ck_args.asin, ck_args.title)
    /\ ck_pc' = "done"
    /\ UNCHANGED <<fnVars, loopVars, ck_args, dedupVars, engineVars, apiVars>>

NextKey == CallBuildKey

SpecKey == InitKey /\ [][NextKey]_vars

(***************************************************************************)
(* C7: priority of the cache key                                           *)
(***************************************************************************)

GtinGiven(g) == g # "" /\ Len(g) >= GtinMinChars
AsinGiven(a) == a # "" /\ Len(a) = AsinChars

KeyOf(a) == build_product_cache_key(a.brand, a.model, a.gtin, a.asin, a.title)

\* C7: with a GTIN of at least 8 characters the key is that of every call with
\* the same GTIN, whatever its asin, brand, model and title; otherwise with an
\* ASIN of exactly 10 characters it is that of every call with the same ASIN
\* (and no such GTIN); otherwise it is that of every call with the same brand,
\* model and first 100 characters of title (and no such GTIN or ASIN).
C7_PriorityStable ==
    ck_pc = "done" =>
        \A b \in KeyArgs :
            \/ /\ GtinGiven(ck_args.gtin)
               /\ b.gtin = ck_args.gtin => KeyOf(b) = ck_key
            \/ /\ ~GtinGiven(ck_args.gtin) /\ AsinGiven(ck_args.asin)
               /\ (~GtinGiven(b.gtin) /\ b.asin = ck_args.asin) => KeyOf(b) = ck_key
            \/ /\ ~GtinGiven(ck_args.gtin) /\ ~AsinGiven(ck_args.asin)
               /\ ( /\ ~GtinGiven(b.gtin) /\ ~AsinGiven(b.asin)
                    /\ b.brand = ck_args.brand /\ b.model = ck_args.model
                    /\ Prefix(b.title, KeyTitleChars) = Prefix(ck_args.title, KeyTitleChars) )
                  => KeyOf(b) = ck_key

\* C7 witness: a product with a GTIN, an ASIN, a brand and a title got the key
\* of its GTIN alone.
C7_Witness ==
    /\ ck_pc = "done"
    /\ ck_args.gtin = "0810043377166"
    /\ ck_args.asin = "B08XYZ1234"
    /\ ck_args.brand = "LEVOIT"
    /\ ck_args.title = T99 \o "ab"
    /\ ck_key = "dealink:prices:md5<prices:gtin=0810043377166>"

(***************************************************************************)
(* Text helpers of the search engine (services/serpapi_service.py)         *)
(***************************************************************************)

Digits == "0123456789"
Letters == LowerLetters \o UpperLetters

\* s.replace(old, new)
RECURSIVE Replace(_, _, _)
Replace(s, old, new) ==
    IF Len(s) < Len(old) \/ Len(old) = 0 THEN s
    ELSE IF SubSeq(s, 1, Len(old)) = old
         THEN new \o Replace(SubSeq(s, Len(old) + 1, Len(s)), old, new)
         ELSE CharAt(s, 1) \o Replace(Tail(s), old, new)

\* s.find(p), 1-based, 0 when p does not occur
Find(s, p) ==
    LET hits == {i \in 1..(Len(s) - Len(p) + 1) : SubSeq(s, i, i + Len(p) - 1) = p}
    IN  IF hits = {} THEN 0 ELSE CHOOSE i \in hits : \A j \in hits : i <= j

\* the text of s before the first of the characters of stops
RECURSIVE UpTo(_, _)
UpTo(s, stops) ==
    IF Len(s) = 0 \/ Contains(stops, CharAt(s, 1)) THEN ""
    ELSE CharAt(s, 1) \o UpTo(Tail(s), stops)

\* urlparse(link).hostname or "": the lower-cased text between "://" and the
\* next "/", "?" or "#", without a port
HostnameAt(link, at) ==
    IF at = 0 THEN "" ELSE Lower(UpTo(SubSeq(link, at + 3, Len(link)), "/?#:"))

Hostname(link) == HostnameAt(link, Find(link, "://"))

\* pydantic's HttpUrl accepts http and https URLs with a host
IsHttpUrl(link) ==
    /\ StartsWith(link, "http://") \/ StartsWith(link, "https://")
    /\ Hostname(link) # ""

\* str(HttpUrl(link)): scheme and host lower-cased, an empty path becomes "/"
\* the path and what follows it: an empty path becomes "/"
UrlTail(tail) == IF StartsWith(tail, "/") THEN tail ELSE "/" \o tail

UrlFrom(scheme, rest, host) ==
    scheme \o Lower(host) \o UrlTail(SubSeq(rest, Len(host) + 1, Len(rest)))

UrlRest(scheme, rest) == UrlFrom(scheme, rest, UpTo(rest, "/?#"))

UrlAt(link, at) == UrlRest(Lower(SubSeq(link, 1, at + 2)), SubSeq(link, at + 3, Len(link)))

HttpUrlStr(link) == UrlAt(link, Find(link, "://"))

\* urllib.parse.quote_plus on the characters the model's queries contain
QuoteChar(c) ==
    IF c = " " THEN "+"
    ELSE IF Contains(Letters, c) \/ Contains(Digits, c) \/ Contains("_.-~", c) THEN c
    ELSE IF c = "/" THEN "%2F"
    ELSE IF c = ":" THEN "%3A"
    ELSE IF c = "?" THEN "%3F"
    ELSE IF c = "=" THEN "%3D"
    ELSE IF c = "&" THEN "%26"
    ELSE IF c = "+" THEN "%2B"
    ELSE IF c = "|" THEN "%7C"
    ELSE "%" \o c

RECURSIVE quote_plus(_)
quote_plus(s) == IF Len(s) = 0 THEN "" ELSE QuoteChar(CharAt(s, 1)) \o quote_plus(Tail(s))

\* urllib.parse.quote(url, safe=''): as quote_plus but a space becomes %20
RECURSIVE quote(_)
quote(s) ==
    IF Len(s) = 0 THEN ""
    ELSE (IF CharAt(s, 1) = " " THEN "%20" ELSE QuoteChar(CharAt(s, 1))) \o quote(Tail(s))

\* round(100 * num / den, 1) in tenths, Python's round-half-to-even
RoundHalfEven(num, den) ==
    LET q == (2 * num + den) \div (2 * den)
    IN  IF (2 * num + den) % (2 * den) = 0 /\ q % 2 = 1 THEN q - 1 ELSE q

\* round(((original - total) / original) * 100, 1), in tenths of a percent
SavingsTenths(original_price, total) ==
    RoundHalfEven(1000 * (original_price - total), original_price)

\* savings_percent=savings_pct if savings_pct > 0 else None
SavingsField(savings_pct) == IF savings_pct > 0 THEN <<savings_pct>> ELSE <<>>

\* a savings field that is never filled in
SavingsFieldNone(savings_pct) == <<>>

refurb_keywords ==
    <<"refurbished", "renewed", "certified refurbished", "certified renewed",
      "factory refurbished", "manufacturer refurbished", "seller refurbished",
      "reacondicionado", "reconditioned", "good - refurbished",
      "excellent - refurbished">>

used_keywords ==
    <<"used", "pre-owned", "pre owned", "preowned", "open box", "open-box",
      "openbox", "like new", "second hand", "secondhand", "2nd hand",
      "very good", "acceptable", "restored">>

ContainsAny(s, kws) == \E i \in DOMAIN kws : Contains(s, kws[i])

ConditionIn(combined) ==
    IF ContainsAny(combined, refurb_keywords) THEN "refurbished"
    ELSE IF ContainsAny(combined, used_keywords) THEN "used"
    ELSE "new"

\* a condition detector that calls everything new
DetectAlwaysNew(title, description) == "new"

_detect_condition(title, description) ==
    ConditionIn(Lower(title \o " " \o description \o " "))

MinSkuChars == 6

_is_sku_like(model) ==
    /\ model # "" /\ model # "Unknown"
    /\ ~Contains(model, " ")
    /\ Len(model) >= MinSkuChars
    /\ \E i \in 1..Len(model) : Contains(Digits, CharAt(model, i))
    /\ \E i \in 1..Len(model) : Contains(Letters, CharAt(model, i))

(***************************************************************************)
(* Store tables (excerpts, in source order, of the stores that occur)      *)
(***************************************************************************)

\* TRUSTED_SOURCES: <<keyword, platform>>
TRUSTED_SOURCES ==
    << <<"amazon", "amazon">>, <<"amazon.com", "amazon">>,
       <<"walmart", "walmart">>, <<"walmart.com", "walmart">>,
       <<"ebay", "ebay">>, <<"ebay.com", "ebay">>,
       <<"google store", "google">>, <<"store.google.com", "google">>,
       <<"sweetwater", "sweetwater">>, <<"sweetwater.com", "sweetwater">> >>

\* STORE_SEARCH_URLS with the query already substituted
StoreSearchUrl(platform, query) ==
    CASE platform = "amazon" -> <<"https://www.amazon.com/s?k=" \o query>>
      [] platform = "walmart" -> <<"https://www.walmart.com/search?q=" \o query>>
      [] platform = "ebay" -> <<"https://www.ebay.com/sch/i.html?_nkw=" \o query>>
      [] platform = "sweetwater" -> <<"https://www.sweetwater.com/store/search?s=" \o query>>
      [] platform = "google" -> <<"https://store.google.com/search?q=" \o query>>
      [] OTHER -> <<>>

search_page_patterns ==
    <<"ebay.com/sch/", "amazon.com/s?", "amazon.com/s/", "walmart.com/search",
      "bestbuy.com/site/searchpage", "newegg.com/p/pl?d=", "target.com/s?",
      "bhphotovideo.com/c/search", "costco.com/CatalogSearch", "/search?q=",
      "/search?query=", "/search?searchTerm=">>

ShortKeywordChars == 4

\* the platform of the first keyword of the table that text contains, "" when
\* it contains none
RECURSIVE FirstPlatform(_, _, _)
FirstPlatform(text, i, table) ==
    IF i > Len(table) THEN ""
    ELSE IF Contains(text, table[i][1]) THEN table[i][2]
    ELSE FirstPlatform(text, i + 1, table)

\* urlparse(link).netloc.lower().replace("www.", "")
LinkDomain(link) == Lower(Replace(Hostname(link), "www.", ""))

PlatformOr(by_link, source, source_lower) ==
    IF by_link # "" THEN by_link
    ELSE IF source # "" THEN Replace(Replace(source_lower, " ", "_"), ".", "_")
    ELSE "unknown"

PlatformBy(by_source, source, source_lower, link) ==
    IF by_source # "" THEN by_source
    ELSE PlatformOr(IF link = "" THEN ""
                    ELSE FirstPlatform(LinkDomain(link), 1, TRUSTED_SOURCES),
                    source, source_lower)

PlatformOf(source, source_lower, link) ==
    PlatformBy(FirstPlatform(source_lower, 1, TRUSTED_SOURCES), source, source_lower, link)

_extract_platform(source, link) == PlatformOf(source, Strip(Lower(source)), link)

\* a short keyword must be the source or start it, a long one be part of it
SourceHasKeyword(source_lower, keyword) ==
    IF Len(keyword) <= ShortKeywordChars
    THEN \/ source_lower = keyword
         \/ StartsWith(source_lower, keyword \o " ")
         \/ StartsWith(source_lower, keyword \o ".")
    ELSE Contains(source_lower, keyword)

DomainHasKeyword(domain, keyword) ==
    \/ Len(keyword) > ShortKeywordChars /\ Contains(domain, keyword)
    \/ StartsWith(domain, keyword \o ".")

TrustedBy(source_lower, link) ==
    /\ source_lower # ""
    /\ \/ \E i \in DOMAIN TRUSTED_SOURCES :
            SourceHasKeyword(source_lower, TRUSTED_SOURCES[i][1])
       \/ /\ link # ""
          /\ \E i \in DOMAIN TRUSTED_SOURCES :
                DomainHasKeyword(LinkDomain(link), TRUSTED_SOURCES[i][1])

\* a trust check that lets every store through
TrustEveryone(source, link) == TRUE

_is_trusted_source(source, link) == TrustedBy(Strip(Lower(source)), link)

\* _build_direct_url for titles without the separators , ( - | , models that
\* are not SKU-like and queries of at most 70 characters
\* the title from the brand on
FromBrand(product_title, brand, brand_idx) ==
    IF brand_idx > 0
    THEN Strip(brand \o " "
               \o Strip(SubSeq(product_title, brand_idx + Len(brand), Len(product_title))))
    ELSE Strip(product_title)

CleanQuery(product_title, brand, model) ==
    IF brand # "" /\ model # "" /\ brand # "Unknown" /\ model # "Unknown"
    THEN brand \o " " \o model
    ELSE IF brand # "" /\ brand # "Unknown"
         THEN FromBrand(product_title, brand, Find(Lower(product_title), Lower(brand)))
         ELSE Strip(product_title)

DirectUrl(platform, query) ==
    IF StoreSearchUrl(platform, query) # <<>> THEN StoreSearchUrl(platform, query)[1]
    ELSE IF platform # "" /\ platform # "unknown" /\ Len(platform) > 2
         THEN "https://www." \o Replace(platform, "_", "") \o ".com/search?q=" \o query
         ELSE "https://www.amazon.com/s?k=" \o query

_build_direct_url(platform, product_title, brand, model) ==
    DirectUrl(platform, quote_plus(CleanQuery(product_title, brand, model)))

IsGoogleListingUrl(url_str) ==
    \/ Contains(url_str, "google.com/shopping")
    \/ Contains(url_str, "google.com/search")
    \/ Contains(url_str, "google.com/url")

IsSearchPageUrl(url_str) == ContainsAny(url_str, search_page_patterns)

(***************************************************************************)
(* PriceMatch (schemas/product.py) and the provider's answers              *)
(***************************************************************************)

\* the PriceMatch of the given fields; rating and reviews are left out
PriceMatch(platform, title, price, shipping, total, url, savings_percent, condition) ==
    [platform |-> platform, title |-> title, price |-> price, shipping |-> shipping,
     total |-> total, url |-> HttpUrlStr(url), type |-> "same",
     savings_percent |-> savings_percent, condition |-> condition]

MaxSavingsTenths == 1000

\* the field constraints pydantic checks when a PriceMatch is built
PriceMatchValid(price, shipping, total, url, savings_percent) ==
    /\ price > 0
    /\ shipping >= 0
    /\ total > 0
    /\ IsHttpUrl(url)
    /\ savings_percent # <<>> =>
          savings_percent[1] >= 0 /\ savings_percent[1] <= MaxSavingsTenths

\* the first number of a price or shipping text, in cents
ParseMoney(text) ==
    CASE text = "$5.00 delivery" -> <<500>>
      [] text = "+$9.99 shipping" -> <<999>>
      [] OTHER -> <<>>

TitleChars == 120

\* original_price * 0.20 and original_price * 2.5 bound the plausible prices
OutsideSaneRange(price, original_price) ==
    original_price # 0 /\ (5 * price < original_price \/ 2 * price > 5 * original_price)

MinOfferCents == 100

\* the seller's shipping charge
SellerShipping(seller) ==
    IF seller.shipping # "" /\ ~Contains(Lower(seller.shipping), "free")
       /\ ParseMoney(seller.shipping) # <<>>
    THEN ParseMoney(seller.shipping)[1] ELSE 0

\* total_price of the seller when positive, else price + shipping
SellerTotal(seller) ==
    IF seller.total_price > 0 THEN seller.total_price
    ELSE seller.extracted_price + SellerShipping(seller)

\* a total that ignores the provider's total_price
SellerTotalSummed(seller) == seller.extracted_price + SellerShipping(seller)

\* the condition the seller states, else the one the title suggests
StatedCondition(condition_str, seller, product_title) ==
    IF condition_str # "" /\ condition_str # "new"
    THEN IF Contains(condition_str, "refurbished") \/ Contains(condition_str, "renewed")
         THEN "refurbished"
         ELSE IF ContainsAny(condition_str, <<"used", "pre-owned", "pre owned",
                                              "open box", "open-box">>)
              THEN "used"
              ELSE _detect_condition(product_title, seller.name)
    ELSE _detect_condition(product_title, seller.name)

SellerCondition(seller, product_title) ==
    StatedCondition(Lower(seller.condition), seller, product_title)

\* the seller is passed over by the loop of _process_product_offers
SellerSkipped(seller, ctx) ==
    \/ seller.link = "" \/ Contains(seller.link, "google.com")
    \/ Contains(Lower(seller.availability), "out of stock")
    \/ Contains(Lower(seller.availability), "unavailable")
    \/ ~_is_trusted_source(seller.name, seller.link)
    \/ /\ ctx.original_platform # ""
       /\ _extract_platform(seller.name, seller.link) = ctx.original_platform
    \/ seller.extracted_price <= 0
    \/ seller.extracted_price < MinOfferCents
    \/ OutsideSaneRange(seller.extracted_price, ctx.original_price)

SellerSavings(seller, ctx) ==
    IF ctx.original_price > 0
    THEN SavingsField(SavingsTenths(ctx.original_price, SellerTotal(seller)))
    ELSE <<>>

SellerValid(seller, ctx) ==
    PriceMatchValid(seller.extracted_price, SellerShipping(seller), SellerTotal(seller),
                    seller.link, SellerSavings(seller, ctx))

SellerMatch(seller, product_title, ctx) ==
    PriceMatch(_extract_platform(seller.name, seller.link),
               Prefix(product_title, TitleChars),
               seller.extracted_price, SellerShipping(seller), SellerTotal(seller),
               seller.link, SellerSavings(seller, ctx),
               SellerCondition(seller, product_title))

\* the matches of the sellers that are not passed over, in the sellers' order
RECURSIVE SellerMatches(_, _, _)
SellerMatches(sellers, product_title, ctx) ==
    IF sellers = <<>> THEN <<>>
    ELSE IF SellerSkipped(Head(sellers), ctx)
         THEN SellerMatches(Tail(sellers), product_title, ctx)
         ELSE <<SellerMatch(Head(sellers), product_title, ctx)>>
              \o SellerMatches(Tail(sellers), product_title, ctx)

IsNew(m) == m.condition = "new"

\* a used bucket that takes every condition
AnyCondition(m) == TRUE

NotNew(m) == m.condition # "new"

\* the result of a call that either raises or returns two lists
Raised == [raised |-> TRUE, same |-> <<>>, used |-> <<>>]
Returned(same, used) == [raised |-> FALSE, same |-> same, used |-> used]

\* product_data = [title, sellers]: product_results.title (Optional) and
\* sellers_results.online_sellers
AllSellersValid(kept, ctx) == \A i \in DOMAIN kept : SellerValid(kept[i], ctx)

\* same_products and used_products of the offers, each sorted by total
SplitOffers(matches) ==
    Returned(SortByTotal(SelectSeq(matches, IsNew)),
             SortByTotal(SelectSeq(matches, NotNew)))

_process_product_offers(product_data, ctx) ==
    IF ~AllSellersValid(SelectSeq(product_data.sellers, LAMBDA s : ~SellerSkipped(s, ctx)),
                        ctx)
    THEN Raised
    ELSE SplitOffers(SellerMatches(product_data.sellers,
                                   IF product_data.title = <<>> THEN ctx.original_title
                                   ELSE product_data.title[1],
                                   ctx))

(***************************************************************************)
(* process_shopping_results: the relevance / trust / price funnel          *)
(***************************************************************************)

\* MIN_RELEVANCE_SCORE = 0.28; a raw result carries the score in hundredths
\* that _calculate_relevance_score gives its title against the request
MIN_RELEVANCE_SCORE == 28

ImmersiveTop == 3
DirectLast == 25
MaxNewResults == 25
MaxUsedResults == 10

\* a slice that keeps the whole list
NoCap(s, n) == s

\* s[:n]
CapList(s, n) == IF Len(s) <= n THEN s ELSE SubSeq(s, 1, n)

\* s[a:b] with 0-based a and exclusive b
Slice(s, a, b) ==
    IF Len(s) <= a THEN <<>> ELSE SubSeq(s, a + 1, IF Len(s) < b THEN Len(s) ELSE b)

\* PHASE 1: drop repeated product ids and results under the relevance floor
RECURSIVE RelevantFrom(_, _)
RelevantFrom(results, seen_product_ids) ==
    IF results = <<>> THEN <<>>
    ELSE LET result == Head(results)
             product_id == result.product_id
         IN  IF product_id # "" /\ product_id \in seen_product_ids
             THEN RelevantFrom(Tail(results), seen_product_ids)
             ELSE LET seen == IF product_id # "" THEN seen_product_ids \cup {product_id}
                              ELSE seen_product_ids
                  IN  IF result.relevance < MIN_RELEVANCE_SCORE
                      THEN RelevantFrom(Tail(results), seen)
                      ELSE <<result>> \o RelevantFrom(Tail(results), seen)

\* sort(key=relevance, reverse=True): stable, highest first
RECURSIVE InsertByRelevance(_, _)
InsertByRelevance(sorted, r) ==
    IF sorted = <<>> THEN <<r>>
    ELSE IF Head(sorted).relevance >= r.relevance
         THEN <<Head(sorted)>> \o InsertByRelevance(Tail(sorted), r)
         ELSE <<r>> \o sorted

RECURSIVE SortByRelevanceFrom(_, _)
SortByRelevanceFrom(acc, rest) ==
    IF rest = <<>> THEN acc
    ELSE SortByRelevanceFrom(InsertByRelevance(acc, Head(rest)), Tail(rest))

\* the fields of a PriceMatch about to be built
Candidate(platform, title, price, shipping, url, condition, ctx) ==
    [platform |-> platform, title |-> Prefix(title, TitleChars), price |-> price,
     shipping |-> shipping, total |-> price + shipping, url |-> url,
     savings_percent |-> IF ctx.original_price > 0
                         THEN SavingsField(SavingsTenths(ctx.original_price,
                                                         price + shipping))
                         ELSE <<>>,
     condition |-> condition]

CandidateValid(c) ==
    PriceMatchValid(c.price, c.shipping, c.total, c.url, c.savings_percent)

CandidateMatch(c) ==
    PriceMatch(c.platform, c.title, c.price, c.shipping, c.total, c.url,
               c.savings_percent, c.condition)

\* the shipping charge of a store of the immersive product page
StoreShipping(store) ==
    IF store.shipping # "" /\ ~Contains(Lower(store.shipping), "free")
       /\ ParseMoney(store.shipping) # <<>>
    THEN ParseMoney(store.shipping)[1] ELSE 0

StoreSkipped(store, ctx) ==
    \/ store.link = ""
    \/ Contains(store.link, "google.com") \/ Contains(store.link, "google.co")
    \/ ~_is_trusted_source(store.name, store.link)
    \/ /\ ctx.original_platform # ""
       /\ _extract_platform(store.name, store.link) = ctx.original_platform
    \/ store.extracted_price <= 0
    \/ OutsideSaneRange(store.extracted_price, ctx.original_price)

\* the candidates of the stores of one immersive product page
RECURSIVE StoreCandidates(_, _, _)
StoreCandidates(stores, title, ctx) ==
    IF stores = <<>> THEN <<>>
    ELSE LET store == Head(stores)
             store_title == IF store.title = <<>> THEN title ELSE store.title[1]
         IN  IF StoreSkipped(store, ctx) THEN StoreCandidates(Tail(stores), title, ctx)
             ELSE <<Candidate(_extract_platform(store.name, store.link), store_title,
                              store.extracted_price, StoreShipping(store), store.link,
                              _detect_condition(store_title, store.description), ctx)>>
                  \o StoreCandidates(Tail(stores), title, ctx)

_extract_shipping(result) ==
    IF result.delivery = "" THEN 0
    ELSE IF \/ Contains(Lower(result.delivery), "free")
            \/ Contains(Lower(result.delivery), "no charge")
         THEN 0
         ELSE IF ParseMoney(result.delivery) # <<>> THEN ParseMoney(result.delivery)[1]
              ELSE 0

\* URL priority: the retailer's own link unless it is a google.com link,
\* else a constructed store search URL
ResultUrl(result, platform, ctx) ==
    IF result.link # "" /\ ~Contains(result.link, "google.com") THEN result.link
    ELSE _build_direct_url(platform, result.title, ctx.brand, ctx.model)

\* FALLBACK of phase 2: the shopping result itself, trusted by source alone
\* the candidate of a shopping result on the platform it was found to be of
ResultCandidate(result, platform, ctx) ==
    Candidate(platform, result.title, result.extracted_price, _extract_shipping(result),
              ResultUrl(result, platform, ctx),
              _detect_condition(result.title, result.second_line), ctx)

FallbackCandidates(result, ctx) ==
    IF \/ result.extracted_price <= 0
       \/ ~_is_trusted_source(result.source, "")
       \/ OutsideSaneRange(result.extracted_price, ctx.original_price)
    THEN <<>>
    ELSE <<ResultCandidate(result, _extract_platform(result.source, ""), ctx)>>

\* PHASE 2 for one of the top results, given the stores the provider sent
StoresOrFallback(from_stores, result, ctx) ==
    IF from_stores # <<>> THEN from_stores ELSE FallbackCandidates(result, ctx)

ImmersiveCandidates(result, stores_of, ctx) ==
    StoresOrFallback(StoreCandidates(IF result.token # "" THEN stores_of[result.token]
                                     ELSE <<>>,
                                     result.title, ctx),
                     result, ctx)

\* PHASE 3 for one of the remaining results
DirectOn(result, platform, ctx) ==
    IF \/ result.extracted_price <= 0
       \/ ~_is_trusted_source(result.source, result.link)
       \/ OutsideSaneRange(result.extracted_price, ctx.original_price)
       \/ ctx.original_platform # "" /\ platform = ctx.original_platform
    THEN <<>>
    ELSE <<ResultCandidate(result, platform, ctx)>>

DirectCandidates(result, ctx) ==
    DirectOn(result, _extract_platform(result.source, result.link), ctx)

RECURSIVE Concat(_)
Concat(lists) == IF lists = <<>> THEN <<>> ELSE Head(lists) \o Concat(Tail(lists))

\* FINAL SAFETY: the URL survives the last filter of the funnel
UrlAllowed(m) == ~IsGoogleListingUrl(m.url) /\ ~IsSearchPageUrl(m.url)

\* a final filter that lets every URL through
UrlAllowedAll(m) == TRUE

\* stores_of[token]: the stores _resolve_stores_for_product returned
\* PHASE 2 over the top results and PHASE 3 over the rest
EachImmersive(immersive_products, stores_of, ctx) ==
    Concat([i \in DOMAIN immersive_products |->
               ImmersiveCandidates(immersive_products[i], stores_of, ctx)])

EachDirect(direct_products, ctx) ==
    Concat([i \in DOMAIN direct_products |-> DirectCandidates(direct_products[i], ctx)])

FunnelCandidates(relevant_products, ctx, stores_of) ==
    EachImmersive(Slice(relevant_products, 0, ImmersiveTop), stores_of, ctx)
    \o EachDirect(Slice(relevant_products, ImmersiveTop, DirectLast), ctx)

CandidateMatches(candidates) ==
    [i \in DOMAIN candidates |-> CandidateMatch(candidates[i])]

\* the split into new and used with the caps of 25 and 10
CappedBuckets(cleaned_products) ==
    Returned(CapList(SelectSeq(cleaned_products, IsNew), MaxNewResults),
             CapList(SelectSeq(cleaned_products, NotNew), MaxUsedResults))

\* sort, deduplicate, FINAL SAFETY filter and split of the candidates
FunnelEnd(candidates) ==
    IF \E i \in DOMAIN candidates : ~CandidateValid(candidates[i]) THEN Raised
    ELSE CappedBuckets(SelectSeq(_deduplicate(SortByTotal(CandidateMatches(candidates))),
                                 UrlAllowed))

process_shopping_results(raw_results, ctx, stores_of) ==
    FunnelEnd(FunnelCandidates(SortByRelevanceFrom(<<>>, RelevantFrom(raw_results, {})),
                               ctx, stores_of))

(***************************************************************************)
(* The provider: what SerpApi can answer                                   *)
(***************************************************************************)

RawResult(title, product_id, token, source, link, cents, relevance) ==
    [title |-> title, product_id |-> product_id, token |-> token, source |-> source,
     link |-> link, extracted_price |-> cents, delivery |-> "", second_line |-> "",
     relevance |-> relevance]

RawWalmart ==
    RawResult("Sony WH5", "p1", "tA", "Walmart", "https://www.walmart.com/ip/1", 8000, 90)
RawBundle ==
    RawResult("Sony WH5 bundle", "p2", "tBig", "eBay", "https://www.ebay.com/itm/7", 9000, 80)
RawBroken ==
    RawResult("Sony case", "p3", "", "Walmart", "https://www.walmart.com/ip/3", 3000, 10)
RawWalmartDirect ==
    RawResult("Sony WH5", "", "", "Walmart", "https://www.walmart.com/ip/1", 8000, 90)
RawUsed ==
    RawResult("Sony WH5 used", "", "", "eBay", "https://www.ebay.com/itm/2", 5000, 70)
RawNoLink ==
    RawResult("Sony WH5", "", "", "Sweetwater", "", 8500, 60)
RawAmazon ==
    RawResult("Sony WH5", "", "", "Amazon.com", "https://www.amazon.com/dp/B1", 9500, 50)
RawShady ==
    RawResult("Sony WH5", "", "", "ShadyShop", "https://shady.example/p", 4000, 40)

\* the shopping_results lists a search can return
ListExact == <<RawWalmart, RawUsed>>
ListMany == <<RawBundle>>
ListBroken == <<RawBroken, RawShady>>
ListShelf == <<RawUsed, RawNoLink, RawAmazon, RawShady, RawWalmartDirect>>

\* a provider call either fails or answers
Failed == [ok |-> FALSE, data |-> <<>>]
Answered(data) == [ok |-> TRUE, data |-> data]

\* search_google_shopping: [] when the call raises
search_google_shopping(answer) == IF answer.ok THEN answer.data ELSE <<>>

Seller(name, link, cents, shipping, total_cents, condition) ==
    [name |-> name, link |-> link, availability |-> "", extracted_price |-> cents,
     shipping |-> shipping, total_price |-> total_cents, condition |-> condition]

SellerWalmart == Seller("Walmart", "https://www.walmart.com/ip/1", 8000, "", 0, "")
SellerWalmartB == Seller("Walmart", "https://www.walmart.com/ip/4", 8200, "Free shipping", 0, "New")
SellerEbayUsed == Seller("eBay", "https://www.ebay.com/itm/2", 6000, "", 0, "Used")
SellerEbaySearch == Seller("eBay", "https://www.ebay.com/sch/i.html?_nkw=wh5", 7000, "", 0, "")
SellerEbay == Seller("eBay", "https://www.ebay.com/itm/5", 7500, "$5.00 delivery", 0, "")
SellerSweetwater == Seller("Sweetwater", "https://www.sweetwater.com/p/6", 9000, "", 5000, "")
SellerAmazon == Seller("Amazon.com", "https://www.amazon.com/dp/B1", 9500, "", 0, "")
SellerAmazonB == Seller("Amazon.com", "https://www.amazon.com/dp/B2", 9600, "", 0, "")
SellerShady == Seller("ShadyShop", "https://shady.example/p", 5000, "", 0, "")
SellerGoogle == Seller("Walmart", "https://www.google.com/url?q=w", 8000, "", 0, "")
SellerNoScheme == Seller("Walmart", "www.walmart.com/ip/9", 8000, "", 0, "")

\* the google_product response of a product id
ProductData(product_id) ==
    CASE product_id = "p1" ->
            [title |-> <<"Sony WH5 Wireless">>,
             sellers |-> <<SellerWalmart, SellerEbayUsed, SellerShady, SellerGoogle>>]
      [] product_id = "p2" ->
            [title |-> <<>>,
             sellers |-> <<SellerWalmart, SellerWalmartB, SellerEbaySearch, SellerEbay,
                           SellerSweetwater, SellerAmazon, SellerAmazonB>>]
      [] OTHER -> [title |-> <<>>, sellers |-> <<SellerNoScheme>>]

\* the answers of the google_product call a provider behaviour pv allows
OffersAnswers(pv, product_id) ==
    {IF o = "answers" THEN Answered(<<ProductData(product_id)>>) ELSE Failed : o \in pv.offers}

\* get_product_offers: {} when the call raises, here None
get_product_offers(answer) == IF answer.ok THEN answer.data ELSE <<>>

Store(name, link, title, cents, shipping, description) ==
    [name |-> name, link |-> link, title |-> title, extracted_price |-> cents,
     shipping |-> shipping, description |-> description]

BigNewStores == 27
BigUsedStores == 12

\* the stores of an immersive product page
StoresOfToken(token) ==
    IF token = "tA"
    THEN <<Store("Walmart", "https://www.walmart.com/ip/1", <<>>, 8000, "", ""),
           Store("eBay", "https://www.ebay.com/itm/8", <<"Sony WH5">>, 6500,
                 "+$9.99 shipping", "Certified Refurbished"),
           Store("Walmart", "https://www.google.com/url?q=w", <<>>, 8000, "", ""),
           Store("ShadyShop", "https://shady.example/p", <<>>, 7900, "", "")>>
    ELSE [i \in 1..BigNewStores |->
             Store("eBay", "https://www.ebay.com/itm/1" \o ToString(i),
                   <<"Sony WH5 lot " \o ToString(i)>>, 7000 + i, "", "")]
         \o [i \in 1..BigUsedStores |->
                Store("eBay", "https://www.ebay.com/itm/2" \o ToString(i),
                      <<"Sony WH5 used " \o ToString(i)>>, 5000 + i, "", "")]

Tokens == {"tA", "tBig"}

TokensOf(raw_results) ==
    {raw_results[i].token : i \in DOMAIN raw_results} \cap Tokens

\* what the immersive product calls of one funnel run return, per token; a
\* token the run never asks for is left at "fails"
StoresAnswers(pv, raw_results) ==
    {f \in [Tokens -> {"fails", "answers"}] :
        \A t \in Tokens : IF t \in TokensOf(raw_results) THEN f[t] \in pv.stores
                                                          ELSE f[t] = "fails"}

\* _resolve_stores_for_product: [] when the call raises
_resolve_stores_for_product(answers) ==
    [t \in Tokens |-> IF answers[t] = "answers" THEN StoresOfToken(t) ELSE <<>>]

\* the queries find_real_prices sends
QueryKinds ==
    {"gtin", "brand_gtin", "brand_model", "sku", "title_direct", "asin", "asin_amazon",
     "title_fallback", "wide"}

\* a provider behaviour: per query the answers it can give, and whether its
\* google_product and immersive product calls answer or fail
Behaviour(shopping, offers, stores) ==
    [shopping |-> shopping, offers |-> offers, stores |-> stores]

NothingFound == [k \in QueryKinds |-> {Answered(<<>>)}]

ProviderNames == {"down", "exact", "many", "broken", "shelf", "late"}

\* the behaviours the provider is given; under "down" every call fails (the
\* provider is unreachable or rejects the key)
Provider(name) ==
    CASE name = "down" ->
            Behaviour([k \in QueryKinds |-> {Failed}], {"fails"}, {"fails"})
      [] name = "exact" ->
            Behaviour([NothingFound EXCEPT !["gtin"] = {Answered(ListExact)}],
                      {"fails", "answers"}, {"answers"})
      [] name = "many" ->
            Behaviour([NothingFound EXCEPT !["gtin"] = {Answered(ListMany)}],
                      {"answers"}, {"fails", "answers"})
      [] name = "broken" ->
            Behaviour([NothingFound EXCEPT !["gtin"] = {Answered(ListBroken)},
                                           !["wide"] = {Answered(ListExact)}],
                      {"fails", "answers"}, {"answers"})
      [] name = "shelf" ->
            Behaviour([NothingFound EXCEPT !["brand_model"] = {Answered(ListShelf)},
                                           !["title_direct"] = {Answered(ListShelf)}],
                      {"answers"}, {"answers"})
      [] name = "late" ->
            Behaviour([NothingFound EXCEPT !["asin_amazon"] = {Answered(ListExact)},
                                           !["title_fallback"] = {Answered(ListShelf)}],
                      {"fails"}, {"fails", "answers"})

(***************************************************************************)
(* find_real_prices: the search strategies of one location                 *)
(*                                                                         *)
(* ctx = [original_price, original_title, brand, model, original_platform, *)
(* gtin, asin]; st = [raw, same, used, methods, raised, log] holds         *)
(* all_raw_results, all_same, all_used and search_methods, and in log what *)
(* the iteration did: the provider queries it sent and the counts its      *)
(* decisions were taken on.  Each strategy maps a state to the set of      *)
(* states the answers of the provider behaviour pv can lead to.            *)
(***************************************************************************)

GtinTitleChars == 50
GtinEnoughResults == 3
FastPathSellers == 3
SkuFewResults == 5
AsinFewRaw == 5
AsinFewSame == 3
SkipLocationResults == 5

\* _add_unique of search_by_gtin: one result per title[:50].lower()
RECURSIVE AddUnique(_, _)
AddUnique(all_results, new_results) ==
    IF new_results = <<>> THEN all_results
    ELSE LET title_key == Lower(Prefix(Head(new_results).title, GtinTitleChars))
             seen_titles == {Lower(Prefix(all_results[i].title, GtinTitleChars)) :
                                i \in DOMAIN all_results}
         IN  AddUnique(IF title_key \in seen_titles THEN all_results
                       ELSE Append(all_results, Head(new_results)),
                       Tail(new_results))

\* the second query of search_by_gtin, after all_results of the first
GtinSecondQuery(all_results, results2, brand) ==
    IF Len(all_results) < GtinEnoughResults /\ brand # "" /\ brand # "Unknown"
    THEN AddUnique(all_results, results2)
    ELSE all_results

\* results and results2 are what query 1 and query 2 return; query 2 is only
\* sent when query 1 found fewer than 3 results and the brand is known
search_by_gtin(results, results2, brand) ==
    GtinSecondQuery(AddUnique(<<>>, results), results2, brand)

\* results2 is what the "<asin> Amazon" query returns, sent when the first
\* query found nothing
search_by_asin(results, results2) == IF results # <<>> THEN results ELSE results2

\* the result with the highest score among those with a product id, the first
\* of them on a tie
RECURSIVE BestScored(_, _, _)
BestScored(raw_results, best_id, best_score) ==
    IF raw_results = <<>> THEN <<best_id, best_score>>
    ELSE LET result == Head(raw_results)
         IN  IF result.product_id # "" /\ result.relevance > best_score
             THEN BestScored(Tail(raw_results), result.product_id, result.relevance)
             ELSE BestScored(Tail(raw_results), best_id, best_score)

\* the best id if its score reaches the floor, else the first id there is
BestOrFirst(best, with_id) ==
    IF best[1] # "" /\ best[2] >= MIN_RELEVANCE_SCORE THEN best[1]
    ELSE IF with_id # <<>> THEN with_id[1].product_id
    ELSE ""

\* "" stands for None
_extract_best_product_id(raw_results) ==
    BestOrFirst(BestScored(raw_results, "", 0),
                SelectSeq(raw_results, LAMBDA r : r.product_id # ""))

\* the iteration sends a provider query of the kind
Called(st, kind) == [st EXCEPT !.log.calls = @ \cup {kind}]

\* the Product API step shared by strategies 1 and 2c
AddOffers(st, offers) ==
    IF offers.raised THEN [st EXCEPT !.raised = TRUE]
    ELSE IF offers.same # <<>> \/ offers.used # <<>>
         THEN [st EXCEPT !.same = @ \o offers.same, !.used = @ \o offers.used,
                         !.methods = @ \cup {"google_product"}]
         ELSE st

WithProductData(st, product_data, ctx) ==
    IF product_data = <<>> THEN st
    ELSE AddOffers(st, _process_product_offers(product_data[1], ctx))

WithOffers(st, answer, ctx) == WithProductData(st, get_product_offers(answer), ctx)

OffersOfProduct(st, best_product_id, step, ctx, pv) ==
    IF best_product_id = "" THEN {st}
    ELSE {WithOffers(Called(st, step), answer, ctx) :
             answer \in OffersAnswers(pv, best_product_id)}

OfferStates(st, raw_results, step, ctx, pv) ==
    OffersOfProduct(st, _extract_best_product_id(raw_results), step, ctx, pv)

\* the new offers the Product API step of strategy 1 added to all_same
GtinOffersCounted(st, all_same_before) ==
    [st EXCEPT !.log.gtin_new = Len(st.same) - all_same_before]

WithRaw(st, results, method) ==
    IF results = <<>> THEN st
    ELSE [st EXCEPT !.raw = @ \o results, !.methods = @ \cup {method}]

\* Strategy 1: GTIN multi-query, then the Product API for the best product id
GtinFound(st, gtin_results, ctx, pv) ==
    IF gtin_results = <<>> THEN {st}
    ELSE {GtinOffersCounted(after, Len(st.same)) :
             after \in OfferStates(WithRaw(st, gtin_results, "gtin_multi"), gtin_results,
                                   "gtin_offers", ctx, pv)}

Strategy1(st, ctx, pv) ==
    IF ctx.gtin = "" \/ Len(ctx.gtin) < GtinMinChars THEN {st}
    ELSE UNION {
            GtinFound(Called(st, "gtin"),
                      search_by_gtin(search_google_shopping(a1),
                                     search_google_shopping(a2), ctx.brand),
                      ctx, pv)
            : <<a1, a2>> \in pv.shopping["gtin"] \X pv.shopping["brand_gtin"] }

\* Strategy 2 / 2b: brand + model, then brand + SKU; without a brand the title
SkuSearch(st1, brand_model_results, ctx, pv) ==
    IF /\ ctx.model # "Unknown" /\ _is_sku_like(ctx.model)
       /\ Len(brand_model_results) < SkuFewResults
    THEN {WithRaw(Called(st1, "sku"), search_google_shopping(a2), "sku") :
             a2 \in pv.shopping["sku"]}
    ELSE {st1}

BrandModelFound(st, brand_model_results, ctx, pv) ==
    SkuSearch(WithRaw(st, brand_model_results, "brand_model"), brand_model_results,
              ctx, pv)

Strategy2Search(st, ctx, pv) ==
    IF ctx.brand # "Unknown"
    THEN UNION {BrandModelFound(Called(st, "brand_model"), search_google_shopping(a1),
                                ctx, pv) :
                   a1 \in pv.shopping["brand_model"]}
    ELSE {WithRaw(Called(st, "title_direct"), search_google_shopping(a1), "title_direct") :
             a1 \in pv.shopping["title_direct"]}

\* Strategy 2c: the Product API for the best id of everything found so far
Strategy2c(st, ctx, pv) ==
    IF "google_product" \notin st.methods /\ st.raw # <<>>
    THEN OfferStates(st, st.raw, "offers_2c", ctx, pv)
    ELSE {st}

\* FAST PATH or strategies 2, 2b, 2c
Strategy2(st, ctx, pv) ==
    IF st.raised THEN {st}
    ELSE IF "google_product" \in st.methods /\ Len(st.same) >= FastPathSellers
         THEN {[st EXCEPT !.methods = @ \cup {"fast_path"}, !.log.fast_path = TRUE]}
         ELSE UNION {Strategy2c(st1, ctx, pv) : st1 \in Strategy2Search(st, ctx, pv)}

\* Strategy 3: ASIN, only in the US and with few results so far
Strategy3(st, ctx, gl, pv) ==
    IF st.raised THEN {st}
    ELSE IF /\ Len(st.raw) < AsinFewRaw /\ Len(st.same) < AsinFewSame /\ gl = "us"
            /\ ctx.asin # "" /\ Len(ctx.asin) = AsinChars
         THEN {WithRaw(Called(st, "asin"),
                       search_by_asin(search_google_shopping(a1),
                                      search_google_shopping(a2)), "asin") :
                  <<a1, a2>> \in pv.shopping["asin"] \X pv.shopping["asin_amazon"]}
         ELSE {st}

\* Strategy 4: title fallback when nothing was found
Strategy4(st, ctx, pv) ==
    IF st.raised \/ st.raw # <<>> THEN {st}
    ELSE {WithRaw(Called(st, "title_fallback"), search_google_shopping(a1),
                  "title_fallback") :
             a1 \in pv.shopping["title_fallback"]}

\* the wide-search merge: the matches of extra whose URL is not yet present
RECURSIVE MergeByUrl(_, _)
MergeByUrl(existing, extra) ==
    IF extra = <<>> THEN existing
    ELSE IF \E i \in DOMAIN existing : existing[i].url = Head(extra).url
         THEN MergeByUrl(existing, Tail(extra))
         ELSE MergeByUrl(Append(existing, Head(extra)), Tail(extra))

\* Strategy 5: the wide search of a location whose funnel found nothing new
WideMerged(st, funnel, wide) ==
    IF wide.raised THEN [st EXCEPT !.raised = TRUE]
    ELSE [st EXCEPT
            !.same = @ \o _deduplicate(SortByTotal(MergeByUrl(funnel.same, wide.same))),
            !.used = @ \o MergeByUrl(funnel.used, wide.used)]

WideFound(st, funnel, wide_results, stores_answers, ctx) ==
    IF wide_results = <<>>
    THEN [st EXCEPT !.same = @ \o funnel.same, !.used = @ \o funnel.used]
    ELSE WideMerged(st, funnel,
                    process_shopping_results(wide_results, ctx,
                                             _resolve_stores_for_product(stores_answers)))

WideSearch(st, funnel, answer, stores_answers, ctx) ==
    WideFound(st, funnel, search_google_shopping(answer), stores_answers, ctx)

\* a page answered once is answered again from the engine's memo
LaterStoresAnswers(first, pv, wide_results) ==
    {[t \in Tokens |-> IF first[t] = "answers" THEN "answers" ELSE later[t]] :
        later \in StoresAnswers(pv, wide_results)}

\* a wide search sent whatever the funnel found
WideAlways(funnel, st, ctx) == TRUE

\* len(same) == 0 and len(all_same) == 0 and brand != "Unknown"
WideWanted(funnel, st, ctx) ==
    Len(funnel.same) = 0 /\ Len(st.same) = 0 /\ ctx.brand # "Unknown"

\* the counts the wide-search decision is taken on
AtFunnelEnd(st, funnel) ==
    [st EXCEPT !.log.funnel_new = <<Len(funnel.same)>>, !.log.all_same_then = <<Len(st.same)>>]

\* Strategy 5 when wanted, else what the funnel found is added
WideOrNot(st, funnel, stores_answers, ctx, pv) ==
    IF WideWanted(funnel, st, ctx)
    THEN UNION {
            {WideSearch(Called(st, "wide"), funnel, answer, later, ctx) :
                later \in LaterStoresAnswers(
                    stores_answers, pv, search_google_shopping(answer))}
            : answer \in pv.shopping["wide"] }
    ELSE {[st EXCEPT !.same = @ \o funnel.same, !.used = @ \o funnel.used]}

\* the funnel over everything the location found, then the wide search
AfterFunnel(st, funnel, stores_answers, ctx, pv) ==
    IF funnel.raised THEN {[st EXCEPT !.raised = TRUE]}
    ELSE WideOrNot(AtFunnelEnd(st, funnel), funnel, stores_answers, ctx, pv)

FunnelAndWide(st, ctx, pv) ==
    IF st.raised \/ st.raw = <<>> THEN {st}
    ELSE UNION {
            AfterFunnel(st,
                        process_shopping_results(
                            st.raw, ctx, _resolve_stores_for_product(stores_answers)),
                        stores_answers, ctx, pv)
            : stores_answers \in StoresAnswers(pv, st.raw) }

Over(states, Step(_)) == UNION {Step(st) : st \in states}

\* nothing sent yet; before is len(all_same) when the iteration starts
NoLog(before) ==
    [calls |-> {}, before |-> before, gtin_new |-> 0, fast_path |-> FALSE,
     funnel_new |-> <<>>, all_same_then |-> <<>>]

\* one iteration of the location loop: from all_same / all_used before it to
\* the possible all_same / all_used after it
LocationOutcomes(all_same, all_used, gl, ctx, pv) ==
    LET st0 == [raw |-> <<>>, same |-> all_same, used |-> all_used, methods |-> {},
                raised |-> FALSE, log |-> NoLog(Len(all_same))]
        s1 == Strategy1(st0, ctx, pv)
        s2 == Over(s1, LAMBDA st : Strategy2(st, ctx, pv))
        s3 == Over(s2, LAMBDA st : Strategy3(st, ctx, gl, pv))
        s4 == Over(s3, LAMBDA st : Strategy4(st, ctx, pv))
    IN  {[raised |-> st.raised, same |-> st.same, used |-> st.used, log |-> st.log] :
            st \in Over(s4, LAMBDA st : FunnelAndWide(st, ctx, pv))}

\* a location loop that gives up when the provider cannot be reached
SearchLocationAborting(all_same, all_used, gl, ctx, pv) ==
    IF \A k \in QueryKinds : pv.shopping[k] = {Failed}
    THEN {[raised |-> TRUE, same |-> all_same, used |-> all_used,
           log |-> NoLog(Len(all_same))]}
    ELSE LocationOutcomes(all_same, all_used, gl, ctx, pv)

SearchLocation(all_same, all_used, gl, ctx, pv) ==
    LocationOutcomes(all_same, all_used, gl, ctx, pv)

\* LOCATION_PROFILES[loc_key]["gl"]
LocationGl(loc_key) == IF loc_key = "gb" THEN "uk" ELSE loc_key

\* all_same and all_used after an iteration, and the log of every iteration
Searched(acc, loc_idx, after) ==
    [raised |-> after.raised, same |-> after.same, used |-> after.used,
     trace |-> Append(acc.trace, [loc_idx |-> loc_idx, log |-> after.log])]

NothingSearched == [raised |-> FALSE, same |-> <<>>, used |-> <<>>, trace |-> <<>>]

\* a loop that searches every location
NeverSkipped(acc, loc_idx) == FALSE

\* loc_idx > 0 and len(all_same) >= 5
LocationSkipped(acc, loc_idx) == loc_idx > 0 /\ Len(acc.same) >= SkipLocationResults

\* the location loop from location number loc_idx (0-based) on
\* pvs[i] names how the provider behaves while location number i is searched
RECURSIVE SearchLocations(_, _, _, _, _)
SearchLocations(acc, search_locations, loc_idx, ctx, pvs) ==
    IF acc.raised \/ loc_idx >= Len(search_locations) THEN {acc}
    ELSE IF LocationSkipped(acc, loc_idx)
         THEN SearchLocations(acc, search_locations, loc_idx + 1, ctx, pvs)
         ELSE UNION {SearchLocations(Searched(acc, loc_idx, after), search_locations,
                                     loc_idx + 1, ctx, pvs) :
                        after \in SearchLocation(acc.same, acc.used,
                                                 LocationGl(search_locations[loc_idx + 1]),
                                                 ctx, Provider(pvs[loc_idx + 1]))}

\* the aggregation after the loop: sort, deduplicate, cap
Aggregate(matches, cap) ==
    IF matches = <<>> THEN matches
    ELSE CapList(_deduplicate(SortByTotal(matches)), cap)

\* the possible results of find_real_prices: it raises or returns (same, used)
find_real_prices(ctx, search_locations, pvs) ==
    {IF out.raised THEN Raised
     ELSE Returned(Aggregate(out.same, MaxNewResults), Aggregate(out.used, MaxUsedResults)) :
        out \in SearchLocations(NothingSearched, search_locations, 0, ctx, pvs)}

\* find_real_prices with the log of its location loop; what it returns is
\* left as the loop left it
find_real_prices_logged(ctx, search_locations, pvs) ==
    SearchLocations(NothingSearched, search_locations, 0, ctx, pvs)

(***************************************************************************)
(* CacheService (services/cache_service.py)                                *)
(*                                                                         *)
(* A cache is [redis, mc, mt]: the Redis keys with their expiry, and the   *)
(* _memory_cache and _memory_timestamps dicts.  A cached value is either   *)
(* the three-bucket dict of /detect-product or the result list of /search. *)
(***************************************************************************)

CACHE_TTL_HOURS == 1
TicksPerHour == 2

\* self.ttl_seconds, in ticks of the model's clock
ttl_seconds == CACHE_TTL_HOURS * TicksPerHour

Without(f, key) ==
    IF DOMAIN f \ {key} = {} THEN <<>> ELSE [k \in DOMAIN f \ {key} |-> f[k]]
With(f, key, value) == (key :> value) @@ f

\* PriceMatch.model_dump(): a dict whose url is still a Url object
model_dump(m) == [m EXCEPT !.url = [object |-> "Url", text |-> m.url]]

\* the dict find_price_matches caches
Buckets(same, similar, used) ==
    [kind |-> "dict", same |-> same, similar |-> similar, used |-> used]

\* the list /search caches
ResultList(items) == [kind |-> "list", items |-> items]

\* default=str of json.dumps: a Url object is written as its text
JsonMatch(d) == [d EXCEPT !.url = [object |-> "str", text |-> d.url.text]]

json_dumps(value) ==
    IF value.kind = "dict"
    THEN [json |-> Buckets([i \in DOMAIN value.same |-> JsonMatch(value.same[i])],
                           [i \in DOMAIN value.similar |-> JsonMatch(value.similar[i])],
                           [i \in DOMAIN value.used |-> JsonMatch(value.used[i])])]
    ELSE [json |-> value]

json_loads(data) == data.json

\* bool(value): a dict with its three keys is true, a list when non-empty
Truthy(value) == IF value.kind = "dict" THEN TRUE ELSE value.items # <<>>

EmptyCache == [redis |-> <<>>, mc |-> <<>>, mt |-> <<>>]

\* Redis itself drops a key when its TTL is over
RedisLive(cache, key, t) == key \in DOMAIN cache.redis /\ t < cache.redis[key].expires

\* an in-process entry that is never taken to be expired
MemoryNeverExpires(cache, key, t) == TRUE

\* time.time() - timestamp < self.ttl_seconds
MemoryFresh(cache, key, t) == t - cache.mt[key] < ttl_seconds

\* CacheService.get at time t: [value, cache]; value is <<>> for None.
\* redis_raises says whether the Redis call of this get fails.
CacheGet(cache, key, t, redis_connected_, redis_raises) ==
    IF redis_connected_ /\ ~redis_raises /\ RedisLive(cache, key, t)
    THEN [value |-> <<json_loads(cache.redis[key].data)>>, cache |-> cache]
    ELSE IF key \in DOMAIN cache.mc
         THEN IF MemoryFresh(cache, key, t)
              THEN [value |-> <<cache.mc[key]>>, cache |-> cache]
              ELSE [value |-> <<>>,
                    cache |-> [cache EXCEPT !.mc = Without(@, key), !.mt = Without(@, key)]]
         ELSE [value |-> <<>>, cache |-> cache]

\* CacheService.set at time t
CacheSet(cache, key, value, t, redis_connected_, redis_raises) ==
    LET serialized == json_dumps(value)
    IN  [redis |-> IF redis_connected_ /\ ~redis_raises
                   THEN With(cache.redis, key,
                             [data |-> serialized, expires |-> t + ttl_seconds])
                   ELSE cache.redis,
         mc |-> With(cache.mc, key, value),
         mt |-> With(cache.mt, key, t)]

\* CacheService.delete: the Redis key goes unless the call fails
CacheDelete(cache, key, redis_connected_, redis_raises) ==
    [redis |-> IF redis_connected_ /\ ~redis_raises THEN Without(cache.redis, key)
               ELSE cache.redis,
     mc |-> Without(cache.mc, key),
     mt |-> Without(cache.mt, key)]

\* whether a Redis call can fail: only when there is a client
RedisFaults(redis_connected_) == IF redis_connected_ THEN BOOLEAN ELSE {FALSE}

(***************************************************************************)
(* parse_product and the GTIN enrichment                                   *)
(***************************************************************************)

EndsWith(s, suffix) ==
    Len(s) >= Len(suffix) /\ SubSeq(s, Len(s) - Len(suffix) + 1, Len(s)) = suffix

brand_suffixes == <<" store", " official", " shop", " outlet", " direct", " online">>

\* clean_brand_name: the store suffixes are cut off, matched without case
RECURSIVE CutSuffixes(_, _)
CutSuffixes(cleaned, patterns) ==
    IF patterns = <<>> THEN cleaned
    ELSE CutSuffixes(IF EndsWith(Lower(cleaned), Head(patterns))
                     THEN Strip(SubSeq(cleaned, 1, Len(cleaned) - Len(Head(patterns))))
                     ELSE cleaned,
                     Tail(patterns))

\* <<>> stands for None
Optional(text) == IF text = "" THEN <<>> ELSE <<text>>

clean_brand_name(brand) ==
    IF brand = "" THEN <<>> ELSE Optional(CutSuffixes(Strip(brand), brand_suffixes))

\* the rules find neither brand nor model in a title: brands.json is not
\* part of the repository and _load_brands_data falls back to empty tables
parse_with_rules(title) == [brand |-> <<>>, model |-> <<>>]

NotParsed == [raised |-> TRUE]

\* structured is <<>> or [brand_is_text, brand, model]; a JSON-LD brand that
\* is an object makes clean_brand_name raise AttributeError
\* parse_from_structured: brand and model of the page's structured data
parse_from_structured(structured) ==
    IF structured = <<>> THEN [brand |-> <<>>, model |-> <<>>]
    ELSE [brand |-> clean_brand_name(structured[1].brand),
          model |-> Optional(structured[1].model)]

\* value or "Unknown"
OrUnknown(value) == IF value = <<>> THEN "Unknown" ELSE value[1]

\* hybrid_parse: the structured data first, the rules for what it lacks
Merged(from_page, rules, product) ==
    [raised |-> FALSE,
     brand |-> OrUnknown(IF from_page.brand # <<>> THEN from_page.brand ELSE rules.brand),
     model |-> OrUnknown(IF from_page.model # <<>> THEN from_page.model ELSE rules.model),
     gtin |-> product.identifiers.gtin,
     asin |-> product.identifiers.asin]

parse_product(product) ==
    IF product.structured # <<>> /\ ~product.structured[1].brand_is_text THEN NotParsed
    ELSE Merged(parse_from_structured(product.structured),
                parse_with_rules(product.title), product)

\* what lookup_gtin can do: raise, find nothing, or find the product
GtinLookups == {"raises", "unknown", "found"}
GtinRecord == [brand |-> "Sony", name |-> "WH5"]

\* the enrichment step of detect_product; a failure leaves the product as it
\* was parsed
Enriched(parsed, lookup) ==
    IF lookup # "found" THEN parsed
    ELSE [parsed EXCEPT
            !.brand = IF parsed.brand = "Unknown" /\ GtinRecord.brand # ""
                      THEN GtinRecord.brand ELSE @,
            !.model = IF parsed.model = "Unknown" /\ GtinRecord.name # ""
                      THEN GtinRecord.name ELSE @]

NeedsEnrichment(parsed) ==
    parsed.gtin # "" /\ (parsed.brand = "Unknown" \/ parsed.model = "Unknown")

(***************************************************************************)
(* _resolve_search_locations                                               *)
(***************************************************************************)

LOCATION_PROFILES ==
    {"us", "il", "gb", "de", "fr", "ca", "au", "nl", "es", "it", "in", "br", "mx", "jp"}

CountryCodeChars == 2

\* language.split("-")[-1]
RECURSIVE LastPart(_)
LastPart(language) ==
    IF Contains(language, "-") THEN LastPart(SubSeq(language, Find(language, "-") + 1,
                                                   Len(language)))
    ELSE language

TimezoneCountry(tz_lower) ==
    IF Contains(tz_lower, "jerusalem") \/ Contains(tz_lower, "israel") THEN "il"
    ELSE IF Contains(tz_lower, "london") THEN "gb"
    ELSE IF Contains(tz_lower, "berlin") \/ Contains(tz_lower, "vienna")
            \/ Contains(tz_lower, "zurich") THEN "de"
    ELSE IF Contains(tz_lower, "paris") THEN "fr"
    ELSE IF Contains(tz_lower, "sydney") \/ Contains(tz_lower, "melbourne") THEN "au"
    ELSE IF Contains(tz_lower, "toronto") \/ Contains(tz_lower, "vancouver") THEN "ca"
    ELSE ""

\* user_locale is <<>> or <<[country, language, timezone]>>
\* the US first, then the user's country when it has a profile
LocationsFor(user_country) ==
    IF user_country # "" /\ user_country \in LOCATION_PROFILES /\ user_country # "us"
    THEN <<"us", user_country>>
    ELSE <<"us">>

CountryOfLanguage(language, last) ==
    IF Contains(language, "-") /\ Len(last) = CountryCodeChars THEN Lower(last) ELSE ""

\* a resolution that asks the timezone before country and language
TimezoneFirst(by_language, locale) ==
    IF TimezoneCountry(Lower(locale.timezone)) # ""
    THEN TimezoneCountry(Lower(locale.timezone)) ELSE by_language

OrTimezone(by_language, locale) ==
    IF by_language # "" THEN by_language ELSE TimezoneCountry(Lower(locale.timezone))

OrLanguage(by_country, locale) ==
    OrTimezone(IF by_country # "" THEN by_country
               ELSE CountryOfLanguage(locale.language, LastPart(locale.language)),
               locale)

UserCountry(locale) ==
    OrLanguage(IF Len(locale.country) = CountryCodeChars THEN Lower(locale.country)
               ELSE "",
               locale)

_resolve_search_locations(user_locale) ==
    IF user_locale = <<>> THEN <<"us">> ELSE LocationsFor(UserCountry(user_locale[1]))

(***************************************************************************)
(* price_service.py: calculate_savings, get_mock_matches,                  *)
(* find_price_matches                                                      *)
(***************************************************************************)

\* savings in tenths of a percent; prices in cents
calculate_savings(original_price, total_price) ==
    IF original_price <= 0 THEN 0
    ELSE IF total_price >= original_price THEN 0
    ELSE RoundHalfEven(1000 * (original_price - total_price), original_price)

MockStores == <<"Walmart", "Amazon", "eBay", "BestBuy", "Target">>
MockSampleSize == 3

\* random.sample(stores, 3): three different stores in any order
IsSample(sample) ==
    /\ Len(sample) = MockSampleSize
    /\ \A i \in DOMAIN sample : \E j \in DOMAIN MockStores : sample[i] = MockStores[j]
    /\ \A i, j \in DOMAIN sample : i # j => sample[i] # sample[j]

\* the samples and the (discount in 1/1000, shipping in cents) draws used
MockSamples ==
    { <<"Walmart", "Amazon", "eBay">>,
      <<"Target", "BestBuy", "eBay">>,
      <<"eBay", "Target", "Walmart">> }

Draw(discount, shipping) == [discount |-> discount, shipping |-> shipping]

MockDraws ==
    { <<Draw(150, 0), Draw(300, 0), Draw(225, 0)>>,
      <<Draw(150, 2000), Draw(150, 0), Draw(300, 500)>>,
      <<Draw(150, 0), Draw(150, 0), Draw(150, 0)>> }

MockUrl(store_lower) ==
    CASE store_lower = "walmart" -> "https://www.walmart.com/ip/mock-100000"
      [] store_lower = "amazon" -> "https://www.amazon.com/dp/B100000000"
      [] store_lower = "ebay" -> "https://www.ebay.com/itm/100000000"
      [] store_lower = "bestbuy" -> "https://www.bestbuy.com/site/1000000.p"
      [] store_lower = "target" -> "https://www.target.com/p/-/A-10000000"
      [] OTHER -> "https://mock." \o store_lower \o ".com/product"

MockTitleChars == 60

MockTitle(parsed, original_title) ==
    IF parsed.brand # "Unknown" /\ parsed.model # "Unknown"
    THEN parsed.brand \o " " \o parsed.model
    ELSE IF Len(original_title) > MockTitleChars
         THEN Prefix(original_title, MockTitleChars - 3) \o "..."
         ELSE original_title

MockOffer(mock_title, original_price, store, price, shipping) ==
    [platform |-> Lower(store), title |-> mock_title \o " (" \o store \o ")",
     price |-> price, shipping |-> shipping, total |-> price + shipping,
     url |-> MockUrl(Lower(store)),
     savings_percent |-> SavingsField(calculate_savings(original_price, price + shipping))]

MockFields(parsed, original_price, original_title, store, draw) ==
    MockOffer(MockTitle(parsed, original_title), original_price, store,
              RoundHalfEven(original_price * (1000 - draw.discount), 1000), draw.shipping)

\* get_mock_matches: raises when a PriceMatch is rejected, else the three
\* matches sorted by total
MockValid(f) == PriceMatchValid(f.price, f.shipping, f.total, f.url, f.savings_percent)

MockMatch(f) ==
    PriceMatch(f.platform, f.title, f.price, f.shipping, f.total, f.url,
               f.savings_percent, "new")

MockMatches(fields) ==
    IF \E i \in DOMAIN fields : ~MockValid(fields[i]) THEN Raised
    ELSE Returned(SortByTotal([i \in DOMAIN fields |-> MockMatch(fields[i])]), <<>>)

\* the matches of a mock answer, all turned into used ones
AsUsed(out) ==
    Returned([i \in DOMAIN out.same |-> [out.same[i] EXCEPT !.condition = "used"]], <<>>)

\* mock matches with a condition other than "new"
MockAsUsed(parsed, original_price, original_title, sample, draws) ==
    AsUsed(MockMatches([i \in DOMAIN sample |->
               MockFields(parsed, original_price, original_title, sample[i], draws[i])]))

get_mock_matches(parsed, original_price, original_title, sample, draws) ==
    MockMatches([i \in DOMAIN sample |->
                    MockFields(parsed, original_price, original_title, sample[i], draws[i])])

\* PriceMatch(**m) for a cached dict m
PriceMatchFromDict(m) ==
    PriceMatch(m.platform, m.title, m.price, m.shipping, m.total, m.url.text,
               m.savings_percent, m.condition)

DictValid(m) ==
    PriceMatchValid(m.price, m.shipping, m.total, m.url.text, m.savings_percent)

\* the result of find_price_matches: it raises or returns three lists;
\* path tells which branch answered, provider_down whether every provider
\* call failed
Found(same, similar, used, cache, path, provider_down) ==
    [raised |-> FALSE, same |-> same, similar |-> similar, used |-> used,
     cache |-> cache, path |-> path, provider_down |-> provider_down]

FindRaised(cache, path) ==
    [raised |-> TRUE, same |-> <<>>, similar |-> <<>>, used |-> <<>>,
     cache |-> cache, path |-> path, provider_down |-> FALSE]

\* the arguments find_real_prices reads
EngineCtx(parsed, original_price, product) ==
    [original_price |-> original_price, original_title |-> product.title,
     brand |-> parsed.brand, model |-> parsed.model,
     original_platform |-> product.platform, gtin |-> parsed.gtin, asin |-> parsed.asin]

\* one provider behaviour per searched location
ProviderRuns(search_locations) == [DOMAIN search_locations -> ProviderNames]

\* the cache-hit branch: a cached list has no .get, a cached dict is rebuilt
FromCache(cached, cache) ==
    IF cached.kind # "dict" THEN FindRaised(cache, "cache_rebuild")
    ELSE IF \E i \in DOMAIN cached.same : ~DictValid(cached.same[i])
         THEN FindRaised(cache, "cache_rebuild")
    ELSE IF \E i \in DOMAIN cached.used : ~DictValid(cached.used[i])
         THEN FindRaised(cache, "cache_rebuild")
    ELSE Found([i \in DOMAIN cached.same |-> PriceMatchFromDict(cached.same[i])],
               [i \in DOMAIN cached.similar |-> PriceMatchFromDict(cached.similar[i])],
               [i \in DOMAIN cached.used |-> PriceMatchFromDict(cached.used[i])],
               cache, "cache_hit", FALSE)

(***************************************************************************)
(* The requests sent to the two endpoints                                  *)
(***************************************************************************)

ProductRequest(title, price, platform, gtin, asin, structured, user_locale) ==
    [title |-> title, price |-> price, platform |-> platform,
     identifiers |-> [gtin |-> gtin, asin |-> asin],
     structured |-> structured, user_locale |-> user_locale]

Gtin == "08100433"
Asin == "B000000001"
PageData == <<[brand_is_text |-> TRUE, brand |-> "Sony Store", model |-> "WH5"]>>
PageDataObject == <<[brand_is_text |-> FALSE, brand |-> "", model |-> "WH5"]>>
LocaleIL == <<[country |-> "IL", language |-> "he-IL", timezone |-> "Asia/Jerusalem"]>>

DetectAmazon == ProductRequest("Sony WH5", <<10000>>, "amazon", Gtin, Asin, PageData, <<>>)
DetectWalmart == ProductRequest("Sony WH5", <<20000>>, "walmart", Gtin, "", PageData, LocaleIL)
DetectWidget == ProductRequest("widget", <<>>, "ebay", Gtin, "", <<>>, <<>>)
DetectObject == ProductRequest("Sony WH5", <<10000>>, "amazon", Gtin, "", PageDataObject, <<>>)
DetectEmpty == ProductRequest("", <<10000>>, "amazon", Gtin, "", <<>>, <<>>)
DetectBlankTitle == ProductRequest(" ", <<10000>>, "amazon", Gtin, "", <<>>, <<>>)

DetectRequests ==
    {DetectAmazon, DetectWalmart, DetectWidget, DetectObject, DetectEmpty, DetectBlankTitle}

\* gtin is "" for None
SearchRequest(title, gtin) == [title |-> title, gtin |-> gtin]

SearchRequests == {SearchRequest("Sony WH5", Gtin)}

DefaultPriceCents == 10000

\* product.price or 100.0
OriginalPrice(product) ==
    IF product.price # <<>> /\ product.price[1] # 0 THEN product.price[1]
    ELSE DefaultPriceCents

(***************************************************************************)
(* find_real_prices for the calls the requests can lead to                 *)
(***************************************************************************)

\* parse_product of every request that passes the title check, computed once
Parses ==
    {[product |-> product, parsed |-> parse_product(product)] :
        product \in {p \in DetectRequests : Strip(p.title) # ""}}

ParsedOf(product) == (CHOOSE e \in Parses : e.product = product).parsed

\* the forms a parsed product can have once the enrichment step is over
AfterEnrichment(parsed) ==
    IF parsed.raised THEN {}
    ELSE IF NeedsEnrichment(parsed) THEN {Enriched(parsed, l) : l \in GtinLookups}
    ELSE {parsed}

ParsedProducts(product) == AfterEnrichment(ParsedOf(product))

\* the detection requests that reach find_price_matches, with the product as
\* parsed and enriched
Detections ==
    UNION {{[product |-> product, parsed |-> parsed] : parsed \in ParsedProducts(product)} :
              product \in {p \in DetectRequests : Strip(p.title) # ""}}

CallOf(d, pvs) ==
    <<EngineCtx(d.parsed, OriginalPrice(d.product), d.product),
      _resolve_search_locations(d.product.user_locale), pvs>>

EngineCalls ==
    UNION {{CallOf(d, pvs) :
               pvs \in ProviderRuns(_resolve_search_locations(d.product.user_locale))} :
              d \in Detections}

\* the possible results of every such call, computed once
EngineResults ==
    {[call |-> call, results |-> find_real_prices(call[1], call[2], call[3])] :
        call \in EngineCalls}

ResultsOf(call) == (CHOOSE e \in EngineResults : e.call = call).results

\* every provider call of the search failed
AllDown(pvs) == \A i \in DOMAIN pvs : pvs[i] = "down"

(***************************************************************************)
(* find_price_matches                                                      *)
(***************************************************************************)

\* what find_price_matches derives from its arguments alone: the cache key,
\* the results find_real_prices can give (with whether every provider call
\* failed) and the mock matches get_mock_matches can give
Plan(d) ==
    [product |-> d.product, parsed |-> d.parsed,
     original_price |-> OriginalPrice(d.product),
     cache_key |-> build_product_cache_key(d.parsed.brand, d.parsed.model, d.parsed.gtin,
                                           d.parsed.asin, d.product.title),
     searches |->
        UNION {{[out |-> out, provider_down |-> AllDown(pvs)] :
                   out \in ResultsOf(CallOf(d, pvs))} :
                  pvs \in ProviderRuns(_resolve_search_locations(d.product.user_locale))},
     mocks |-> {get_mock_matches(d.parsed, OriginalPrice(d.product), d.product.title,
                                 sample, draws) :
                   sample \in MockSamples, draws \in MockDraws}]

Plans == {Plan(d) : d \in Detections}

PlanOf(product, parsed) ==
    CHOOSE plan \in Plans : plan.product = product /\ plan.parsed = parsed

\* a mock fallback that keeps what it made in the memory cache
MockPersisted(plan, cache, path, provider_down) ==
    {IF out.raised THEN FindRaised(cache, path)
     ELSE Found(out.same, <<>>, <<>>,
                [cache EXCEPT !.mc = With(@, plan.cache_key,
                                          Buckets([i \in DOMAIN out.same |->
                                                      model_dump(out.same[i])],
                                                  <<>>, <<>>)),
                              !.mt = With(@, plan.cache_key, 0)],
                path, provider_down) :
        out \in plan.mocks}

\* the mock fallback
MockFallback(plan, cache, path, provider_down) ==
    {IF out.raised THEN FindRaised(cache, path)
     ELSE Found(out.same, <<>>, <<>>, cache, path, provider_down) :
        out \in plan.mocks}

\* the real search: a raise falls through to the mock, a non-empty result is
\* cached, an empty one is returned as three empty lists
RealSearch(plan, cache, t, redis_connected_) ==
    UNION {
        IF s.out.raised
        THEN MockFallback(plan, cache, "mock_after_error", s.provider_down)
        ELSE IF s.out.same # <<>> \/ s.out.used # <<>>
             THEN {Found(s.out.same, <<>>, s.out.used,
                         CacheSet(cache, plan.cache_key,
                                  Buckets([i \in DOMAIN s.out.same |->
                                              model_dump(s.out.same[i])],
                                          <<>>,
                                          [i \in DOMAIN s.out.used |->
                                              model_dump(s.out.used[i])]),
                                  t, redis_connected_, redis_raises),
                         "search", s.provider_down) :
                      redis_raises \in RedisFaults(redis_connected_)}
             ELSE {Found(<<>>, <<>>, <<>>, cache, "search_empty", s.provider_down)}
        : s \in plan.searches }

find_price_matches(plan, cache, t, key_configured, redis_connected_) ==
    UNION {
        LET got == CacheGet(cache, plan.cache_key, t, redis_connected_, redis_raises)
        IN  IF got.value # <<>> /\ Truthy(got.value[1])
            THEN {FromCache(got.value[1], got.cache)}
            ELSE IF key_configured
                 THEN RealSearch(plan, got.cache, t, redis_connected_)
                 ELSE MockFallback(plan, got.cache, "mock_no_key", FALSE)
        : redis_raises \in RedisFaults(redis_connected_) }

(***************************************************************************)
(* POST /api/v1/detect-product                                             *)
(***************************************************************************)

\* an answer of the endpoint; path, provider_down and touched record how it
\* came about and are not part of the payload
DetectAnswer(status, body, original_price, same, similar, used, path, provider_down, touched, t) ==
    [endpoint |-> "detect", status |-> status, body |-> body,
     original_price |-> original_price, same_products |-> same,
     similar_products |-> similar, used_products |-> used,
     path |-> path, provider_down |-> provider_down, touched |-> touched, at |-> t]

\* title="" fails min_length=1 of ProductRequest: FastAPI answers 422
ValidationAnswer(t) ==
    DetectAnswer(422, "detail", 0, <<>>, <<>>, <<>>, "rejected", FALSE, {}, t)

\* InvalidProductDataError reaches dealink_exception_handler, which returns a
\* dict instead of a Response: the request ends as a server error
HandlerAnswer(t) ==
    DetectAnswer(500, "Internal Server Error", 0, <<>>, <<>>, <<>>, "invalid_title",
                 FALSE, {}, t)

\* a handler that answered as InvalidProductDataError intends
HandlerAnswer400(t) ==
    DetectAnswer(400, "error,status_code", 0, <<>>, <<>>, <<>>, "invalid_title",
                 FALSE, {}, t)

\* an except branch that lets the failure through
ErrorSurfaced(product, path, touched, t) ==
    DetectAnswer(500, "Internal Server Error", 0, <<>>, <<>>, <<>>, path, FALSE, touched, t)

\* the except Exception branch of detect_product
ErrorAnswer(product, path, touched, t) ==
    DetectAnswer(200, "DetectResponse", OriginalPrice(product), <<>>, <<>>, <<>>, path,
                 FALSE, touched, t)

TouchedBy(found) ==
    IF found.path \in {"search", "search_empty", "mock_after_error"}
    THEN {"cache", "provider"} ELSE {"cache"}

\* the answer after find_price_matches returned or raised
AnswerOf(product, found, touched, t) ==
    IF found.raised THEN ErrorAnswer(product, found.path, touched \cup TouchedBy(found), t)
    ELSE DetectAnswer(200, "DetectResponse", OriginalPrice(product), found.same,
                      found.similar, found.used, found.path, found.provider_down,
                      touched \cup TouchedBy(found), t)

(***************************************************************************)
(* find_real_prices on its own: one call per behaviour                     *)
(***************************************************************************)

InitEngine ==
    /\ fr_call \in {<<call>> : call \in EngineCalls}
    /\ fr_result = <<>>
    /\ fr_pc = "call"
    /\ _cache = <<>>
    /\ IdleDedup /\ IdleKey /\ IdleApi /\ IdleFn /\ IdleLoop

CallFindRealPrices ==
    /\ fr_pc = "call"
    /\ \E out \in ResultsOf(fr_call[1]) : fr_result' = <<out>>
    /\ fr_pc' = "done"
    /\ UNCHANGED <<fnVars, loopVars, fr_call, _cache, dedupVars, keyVars, apiVars>>

NextEngine == CallFindRealPrices

SpecEngine == InitEngine /\ [][NextEngine]_vars

(***************************************************************************)
(* find_real_prices with the log of its location loop                      *)
(***************************************************************************)

\* the possible runs of every call, computed once
EngineRuns ==
    {[call |-> call, runs |-> find_real_prices_logged(call[1], call[2], call[3])] :
        call \in EngineCalls}

RunsOf(call) == (CHOOSE e \in EngineRuns : e.call = call).runs

InitSearchLog ==
    /\ fr_call \in {<<call>> : call \in EngineCalls}
    /\ fr_result = <<>>
    /\ fr_pc = "run"
    /\ _cache = <<>>
    /\ IdleDedup /\ IdleKey /\ IdleApi /\ IdleFn /\ IdleLoop

RunFindRealPrices ==
    /\ fr_pc = "run"
    /\ \E out \in RunsOf(fr_call[1]) : fr_result' = <<out>>
    /\ fr_pc' = "done"
    /\ UNCHANGED <<fnVars, loopVars, fr_call, _cache, dedupVars, keyVars, apiVars>>

NextSearchLog == RunFindRealPrices

SpecSearchLog == InitSearchLog /\ [][NextSearchLog]_vars

(***************************************************************************)
(* services/discovery.py and services/affiliate.py                         *)
(***************************************************************************)

\* _build_store_link: a store search link, "" for a store it does not know
StoreLink(s, q) ==
    IF Contains(s, "amazon") THEN "https://www.amazon.com/s?k=" \o q
    ELSE IF Contains(s, "ebay") THEN "https://www.ebay.com/sch/i.html?_nkw=" \o q
    ELSE IF Contains(s, "walmart") THEN "https://www.walmart.com/search?q=" \o q
    ELSE IF Contains(s, "aliexpress")
         THEN "https://www.aliexpress.com/wholesale?SearchText=" \o q
    ELSE IF Contains(s, "newegg") THEN "https://www.newegg.com/p/pl?d=" \o q
    ELSE IF Contains(s, "bestbuy")
         THEN "https://www.bestbuy.com/site/searchpage.jsp?st=" \o q
    ELSE IF Contains(s, "target") THEN "https://www.target.com/s?searchTerm=" \o q
    ELSE ""

_build_store_link(store, title) == StoreLink(Lower(store), quote_plus(title))

\* affiliate_url is <<>> while the key is not in the dict
_normalize(r) ==
    [store |-> r.source, title |-> r.title, price |-> r.extracted_price,
     url |-> IF r.link # "" THEN r.link ELSE _build_store_link(r.source, r.title),
     affiliate_url |-> <<>>]

RawUnpriced == RawResult("Sony WH5", "", "", "Walmart", "https://www.walmart.com/ip/1", 0, 0)
RawShop == RawResult("Sony WH5 kit", "", "", "Corner Shop", "", 7000, 0)
RawWalmartNoLink == RawResult("Sony WH5", "", "", "Walmart", "", 8000, 0)

\* what the Google Shopping call of _search can return
DiscoveryAnswers ==
    { Failed,
      Answered(<<>>),
      Answered(<<RawNoLink, RawUnpriced, RawShop>>),
      Answered(<<RawWalmartDirect, RawNoLink>>),
      Answered(<<RawWalmartNoLink>>) }

\* _search: [] when the call raises, else the priced results
_search(answer) ==
    IF ~answer.ok THEN <<>>
    ELSE LET priced == SelectSeq(answer.data, LAMBDA r : r.extracted_price # 0)
         IN  [i \in DOMAIN priced |-> _normalize(priced[i])]

RECURSIVE InsertByPrice(_, _)
InsertByPrice(sorted, x) ==
    IF sorted = <<>> THEN <<x>>
    ELSE IF x.price < Head(sorted).price THEN <<x>> \o sorted
    ELSE <<Head(sorted)>> \o InsertByPrice(Tail(sorted), x)

\* sorted(results, key=price): stable
RECURSIVE SortByPrice(_)
SortByPrice(results) ==
    IF results = <<>> THEN <<>>
    ELSE InsertByPrice(SortByPrice(SubSeq(results, 1, Len(results) - 1)),
                       results[Len(results)])

\* the attributes of class Settings (config.py)
SettingsAttributes ==
    {"SERPAPI_KEY", "EBAY_API_KEY", "WALMART_API_KEY", "AMAZON_TAG", "REDIS_URL",
     "CACHE_TTL_HOURS", "LOG_LEVEL", "CORS_ORIGINS", "has_serpapi_key", "has_ebay_key",
     "has_walmart_key"}

\* make_branded_link reads settings.BASE_URL: AttributeError when Settings
\* has no such attribute
BrandedLinkRaises == "BASE_URL" \notin SettingsAttributes

BaseUrl == "https://dealink.example"

make_branded_link(url) == BaseUrl \o "/go?u=" \o quote(url)

\* apply_affiliate_links: raises, or the results with affiliate_url set on
\* those that have a url
AffiliateRaises(results) ==
    BrandedLinkRaises /\ \E i \in DOMAIN results : results[i].url # ""

apply_affiliate_links(results) ==
    [i \in DOMAIN results |->
        IF results[i].url # ""
        THEN [results[i] EXCEPT !.affiliate_url = <<make_branded_link(results[i].url)>>]
        ELSE results[i]]

\* what the rest of the /search handler does with each answer, computed once
\* a handler that lets the failure of the provider call through
SearchOutcomeRaising(answer, sorted) ==
    [raises |-> ~answer.ok \/ AffiliateRaises(sorted),
     results |-> apply_affiliate_links(sorted), failed |-> ~answer.ok]

SearchOutcome(answer, sorted) ==
    [raises |-> AffiliateRaises(sorted), results |-> apply_affiliate_links(sorted),
     failed |-> ~answer.ok]

SearchOutcomes ==
    {SearchOutcome(answer, SortByPrice(_search(answer))) : answer \in DiscoveryAnswers}

(***************************************************************************)
(* The endpoints as actions.  One request is served at a time; a handler   *)
(* that awaits an external call is split at the await.                     *)
(***************************************************************************)

MaxTime == 2

Cache == [redis |-> redis_store, mc |-> memory_cache, mt |-> memory_timestamps]

SetCache(cache) ==
    /\ redis_store' = cache.redis
    /\ memory_cache' = cache.mc
    /\ memory_timestamps' = cache.mt

\* a detection request arrives
Begin(r) ==
    /\ pc = "idle"
    /\ req' = <<r>>
    /\ prev' = <<>>

\* a /search request arrives: prev keeps the /search exchange that came
\* directly before it
BeginSearch(r) ==
    /\ pc = "idle"
    /\ req' = <<r>>
    /\ prev' = IF resp # <<>> /\ resp[1].endpoint = "search"
               THEN <<[req |-> req[1], resp |-> resp[1]]>> ELSE <<>>

Valid(product) == Strip(product.title) # ""

\* title "" is rejected by the request schema
DetectInvalid(product) ==
    /\ Begin(product)
    /\ product.title = ""
    /\ resp' = <<ValidationAnswer(now)>>
    /\ UNCHANGED <<fnVars, loopVars, dedupVars, keyVars, engineVars, has_serpapi_key, redis_connected, cacheVars, now, pc, eng>>

\* a title of blanks raises InvalidProductDataError
DetectBlank(product) ==
    /\ Begin(product)
    /\ product.title # "" /\ ~Valid(product)
    /\ resp' = <<HandlerAnswer(now)>>
    /\ UNCHANGED <<fnVars, loopVars, dedupVars, keyVars, engineVars, has_serpapi_key, redis_connected, cacheVars, now, pc, eng>>

\* parse_product raises
DetectUnparsed(product) ==
    /\ Begin(product)
    /\ Valid(product) /\ ParsedOf(product).raised
    /\ resp' = <<ErrorAnswer(product, "parse", {"parser"}, now)>>
    /\ UNCHANGED <<fnVars, loopVars, dedupVars, keyVars, engineVars, has_serpapi_key, redis_connected, cacheVars, now, pc, eng>>

\* the handler up to the await of enrich_product_with_gtin
DetectEnrich(product) ==
    /\ Begin(product)
    /\ Valid(product) /\ ~ParsedOf(product).raised
    /\ NeedsEnrichment(ParsedOf(product))
    /\ pc' = "enrich"
    /\ eng' = <<ParsedOf(product)>>
    /\ resp' = <<>>
    /\ UNCHANGED <<fnVars, loopVars, dedupVars, keyVars, engineVars, has_serpapi_key, redis_connected, cacheVars, now>>

\* the rest of the handler once the lookup is over
DetectEnriched ==
    /\ pc = "enrich"
    /\ \E lookup \in GtinLookups :
         \E found \in find_price_matches(PlanOf(req[1], Enriched(eng[1], lookup)), Cache,
                                         now, has_serpapi_key, redis_connected) :
            /\ resp' = <<AnswerOf(req[1], found,
                                   IF lookup = "raises" THEN {"parser", "gtin", "gtin_raised"}
                                   ELSE {"parser", "gtin"},
                                   now)>>
            /\ SetCache(found.cache)
    /\ pc' = "idle"
    /\ eng' = <<>>
    /\ UNCHANGED <<fnVars, loopVars, dedupVars, keyVars, engineVars, has_serpapi_key, redis_connected, now, req, prev>>

\* the whole handler when there is nothing to enrich
DetectDirect(product) ==
    /\ Begin(product)
    /\ Valid(product) /\ ~ParsedOf(product).raised
    /\ ~NeedsEnrichment(ParsedOf(product))
    /\ \E found \in find_price_matches(PlanOf(product, ParsedOf(product)), Cache,
                                       now, has_serpapi_key, redis_connected) :
          /\ resp' = <<AnswerOf(product, found, {"parser"}, now)>>
          /\ SetCache(found.cache)
    /\ UNCHANGED <<fnVars, loopVars, dedupVars, keyVars, engineVars, has_serpapi_key, redis_connected, now, pc, eng>>

(***************************************************************************)
(* POST /api/v1/search                                                     *)
(***************************************************************************)

SearchKey(r) == build_product_cache_key("", "", r.gtin, "", r.title)

\* len(cached): the entries of a list, the keys of a dict
Count(value) == IF value.kind = "dict" THEN 3 ELSE Len(value.items)

\* path records how the answer came about and is not part of the payload
SearchAnswer(status, results, cached, path, t) ==
    [endpoint |-> "search", status |-> status, results |-> results, cached |-> cached,
     count |-> Count(results), path |-> path, at |-> t]

\* whether _search caught a failure of the provider call
CallPath(outcome) == IF outcome.failed THEN "provider_failed" ELSE "provider_answered"

\* the cache answers
SearchHit(r) ==
    /\ BeginSearch(r)
    /\ \E redis_raises \in RedisFaults(redis_connected) :
          LET got == CacheGet(Cache, SearchKey(r), now, redis_connected, redis_raises)
          IN  /\ got.value # <<>> /\ Truthy(got.value[1])
              /\ resp' = <<SearchAnswer(200, got.value[1], TRUE, "cache_hit", now)>>
              /\ SetCache(got.cache)
    /\ UNCHANGED <<fnVars, loopVars, dedupVars, keyVars, engineVars, has_serpapi_key, redis_connected, now, pc, eng>>

\* find_prices returns [] without a call: no key, or nothing to ask for
SearchUnconfigured(r) ==
    /\ BeginSearch(r)
    /\ ~has_serpapi_key \/ Strip(IF r.gtin # "" THEN r.gtin ELSE r.title) = ""
    /\ \E get_raises, set_raises \in RedisFaults(redis_connected) :
          LET got == CacheGet(Cache, SearchKey(r), now, redis_connected, get_raises)
              results == apply_affiliate_links(SortByPrice(<<>>))
          IN  /\ ~(got.value # <<>> /\ Truthy(got.value[1]))
              /\ resp' = <<SearchAnswer(200, ResultList(results), FALSE, "no_call", now)>>
              /\ SetCache(CacheSet(got.cache, SearchKey(r), ResultList(results), now,
                                   redis_connected, set_raises))
    /\ UNCHANGED <<fnVars, loopVars, dedupVars, keyVars, engineVars, has_serpapi_key, redis_connected, now, pc, eng>>

\* a miss: the handler up to the await of run_in_executor
SearchStart(r) ==
    /\ BeginSearch(r)
    /\ has_serpapi_key /\ Strip(IF r.gtin # "" THEN r.gtin ELSE r.title) # ""
    /\ \E redis_raises \in RedisFaults(redis_connected) :
          LET got == CacheGet(Cache, SearchKey(r), now, redis_connected, redis_raises)
          IN  /\ ~(got.value # <<>> /\ Truthy(got.value[1]))
              /\ SetCache(got.cache)
    /\ pc' = "searching"
    /\ eng' = <<[cache_key |-> SearchKey(r)]>>
    /\ resp' = <<>>
    /\ UNCHANGED <<fnVars, loopVars, dedupVars, keyVars, engineVars, has_serpapi_key, redis_connected, now>>

\* the rest of the handler: sort, affiliate links, cache.set, answer
SearchFinish ==
    /\ pc = "searching"
    /\ \E outcome \in SearchOutcomes, redis_raises \in RedisFaults(redis_connected) :
          IF outcome.raises
          THEN /\ resp' = <<SearchAnswer(500, ResultList(<<>>), FALSE, CallPath(outcome), now)>>
               /\ UNCHANGED cacheVars
          ELSE /\ resp' = <<SearchAnswer(200, ResultList(outcome.results), FALSE,
                                            CallPath(outcome), now)>>
               /\ SetCache(CacheSet(Cache, eng[1].cache_key, ResultList(outcome.results),
                                    now, redis_connected, redis_raises))
    /\ pc' = "idle"
    /\ eng' = <<>>
    /\ UNCHANGED <<fnVars, loopVars, dedupVars, keyVars, engineVars, has_serpapi_key, redis_connected, now, req, prev>>

(***************************************************************************)
(* POST /cache/cleanup and the clock                                       *)
(***************************************************************************)

\* clear_expired: the memory entries whose age reached the TTL are dropped
clear_expired(cache, t) ==
    LET expired_keys == {k \in DOMAIN cache.mt : t - cache.mt[k] >= ttl_seconds}
        kept == DOMAIN cache.mc \ expired_keys
    IN  [removed |-> Cardinality(expired_keys),
         cache |-> [cache EXCEPT
                      !.mc = IF kept = {} THEN <<>> ELSE [k \in kept |-> cache.mc[k]],
                      !.mt = IF kept = {} THEN <<>> ELSE [k \in kept |-> cache.mt[k]]]]

CacheCleanup ==
    /\ pc = "idle"
    /\ LET cleared == clear_expired(Cache, now)
       IN  /\ SetCache(cleared.cache)
           /\ resp' = <<[endpoint |-> "cleanup", status |-> 200,
                         removed |-> cleared.removed,
                         remaining |-> Cardinality(DOMAIN cleared.cache.mc), at |-> now]>>
    /\ req' = <<>>
    /\ prev' = <<>>
    /\ UNCHANGED <<fnVars, loopVars, dedupVars, keyVars, engineVars, has_serpapi_key, redis_connected, now, pc, eng>>

\* time passes; Redis drops the keys whose TTL is over
Tick ==
    /\ pc = "idle"
    /\ now < MaxTime
    /\ now' = now + 1
    /\ LET live == {k \in DOMAIN redis_store : redis_store[k].expires > now + 1}
       IN  redis_store' = IF live = {} THEN <<>> ELSE [k \in live |-> redis_store[k]]
    /\ UNCHANGED <<fnVars, loopVars, dedupVars, keyVars, engineVars, has_serpapi_key, redis_connected, memory_cache, memory_timestamps, pc,
                   req, eng, resp, prev>>

InitApi ==
    /\ has_serpapi_key \in BOOLEAN
    /\ redis_connected \in BOOLEAN
    /\ redis_store = <<>> /\ memory_cache = <<>> /\ memory_timestamps = <<>>
    /\ now = 0
    /\ pc = "idle"
    /\ req = <<>> /\ eng = <<>> /\ resp = <<>> /\ prev = <<>>
    /\ IdleDedup /\ IdleKey /\ IdleEngine /\ IdleFn /\ IdleLoop

NextApi ==
    \/ \E product \in DetectRequests :
          \/ DetectInvalid(product)
          \/ DetectBlank(product)
          \/ DetectUnparsed(product)
          \/ DetectEnrich(product)
          \/ DetectDirect(product)
    \/ DetectEnriched
    \/ \E r \in SearchRequests : SearchHit(r) \/ SearchUnconfigured(r) \/ SearchStart(r)
    \/ SearchFinish
    \/ CacheCleanup
    \/ Tick

SpecApi == InitApi /\ [][NextApi]_vars

(***************************************************************************)
(* The event loop: the handlers of concurrent requests.  A coroutine gives *)
(* up the loop thread only at an await that really suspends: the httpx     *)
(* call of lookup_gtin and the run_in_executor of find_prices.  The calls  *)
(* find_real_prices makes (GoogleSearch(...).get_dict(), requests.get) are *)
(* synchronous: the coroutine keeps the thread while they are outstanding. *)
(***************************************************************************)

MaxRequests == 2

Slots == 1..MaxRequests

\* the requests sent while the loop is observed
LoopDetectRequests == {DetectAmazon, DetectWidget}

\* a coroutine: where it stands, its request, the locals it keeps, the cache
\* reads, cache writes and external calls it made so far, and its answer
Coroutine(at, endpoint, request, locals, log, answer) ==
    [pc |-> at, endpoint |-> endpoint, request |-> request, locals |-> locals,
     log |-> log, resp |-> answer]

NoCoroutine == Coroutine("none", "", <<>>, <<>>, <<>>, <<>>)

Finished(co, log, answer) == [co EXCEPT !.pc = "done", !.log = log, !.resp = <<answer>>]

\* what a finished find_real_prices adds to the log: the result is cached
\* when there is one
FoundLog(found) == IF found.path = "search" THEN <<"cache_set">> ELSE <<>>

\* find_price_matches up to the point where it returns or enters
\* find_real_prices; got is what cache.get gave
LoopAfterGet(i, co, parsed, touched, got) ==
    IF got.value # <<>> /\ Truthy(got.value[1])
    THEN /\ loop_co' = [loop_co EXCEPT ![i] =
                Finished(co, co.log \o <<"cache_hit">>,
                         AnswerOf(co.request, FromCache(got.value[1], got.cache), touched, now))]
         /\ SetCache(got.cache)
         /\ UNCHANGED loop_running
    ELSE IF has_serpapi_key
         THEN /\ loop_co' = [loop_co EXCEPT ![i] =
                    [co EXCEPT !.pc = "provider",
                               !.locals = <<[parsed |-> parsed, touched |-> touched]>>,
                               !.log = co.log \o <<"cache_miss", "provider">>]]
              /\ SetCache(got.cache)
              /\ loop_running' = i
         ELSE /\ \E found \in MockFallback(PlanOf(co.request, parsed), got.cache,
                                           "mock_no_key", FALSE) :
                    /\ loop_co' = [loop_co EXCEPT ![i] =
                          Finished(co, co.log \o <<"cache_miss">>,
                                   AnswerOf(co.request, found, touched, now))]
                    /\ SetCache(found.cache)
              /\ UNCHANGED loop_running

LoopFind(i, co, parsed, touched) ==
    \E redis_raises \in RedisFaults(redis_connected) :
        LoopAfterGet(i, co, parsed, touched,
                     CacheGet(Cache,
                              build_product_cache_key(parsed.brand, parsed.model, parsed.gtin,
                                                      parsed.asin, co.request.title),
                              now, redis_connected, redis_raises))

LoopUnchanged ==
    UNCHANGED <<fnVars, dedupVars, keyVars, engineVars, has_serpapi_key, redis_connected,
                now, pc, req, eng, resp, prev>>

\* detect_product for a product that needs no enrichment: it runs without a
\* suspension up to its answer or into find_real_prices
LoopDetect(i, product) ==
    /\ loop_running = 0 /\ loop_co[i].pc = "none"
    /\ ~ParsedOf(product).raised /\ ~NeedsEnrichment(ParsedOf(product))
    /\ LoopFind(i, Coroutine("run", "detect", product, <<>>, <<>>, <<>>),
                ParsedOf(product), {"parser"})
    /\ LoopUnchanged

\* detect_product up to the await of enrich_product_with_gtin
LoopDetectEnrich(i, product) ==
    /\ loop_running = 0 /\ loop_co[i].pc = "none"
    /\ ~ParsedOf(product).raised /\ NeedsEnrichment(ParsedOf(product))
    /\ loop_co' = [loop_co EXCEPT ![i] =
            Coroutine("enrich", "detect", product, <<[parsed |-> ParsedOf(product)]>>,
                      <<"gtin_lookup">>, <<>>)]
    /\ UNCHANGED <<loop_running, cacheVars>>
    /\ LoopUnchanged

\* the lookup is over: the coroutine is resumed
LoopDetectEnriched(i) ==
    /\ loop_running = 0 /\ loop_co[i].pc = "enrich"
    /\ \E lookup \in GtinLookups :
          LoopFind(i, loop_co[i], Enriched(loop_co[i].locals[1].parsed, lookup),
                   IF lookup = "raises" THEN {"parser", "gtin", "gtin_raised"}
                   ELSE {"parser", "gtin"})
    /\ LoopUnchanged

\* find_real_prices returns or raises; find_price_matches and detect_product
\* run to the end
LoopProviderReturn(i) ==
    /\ loop_running = i /\ loop_co[i].pc = "provider"
    /\ \E found \in RealSearch(PlanOf(loop_co[i].request, loop_co[i].locals[1].parsed),
                               Cache, now, redis_connected) :
          /\ loop_co' = [loop_co EXCEPT ![i] =
                Finished(loop_co[i], loop_co[i].log \o FoundLog(found),
                         AnswerOf(loop_co[i].request, found, loop_co[i].locals[1].touched,
                                  now))]
          /\ SetCache(found.cache)
    /\ loop_running' = 0
    /\ LoopUnchanged

\* search() up to its answer or to the await of find_prices; got is what
\* cache.get gave
LoopSearchAfterGet(i, co, got) ==
    IF got.value # <<>> /\ Truthy(got.value[1])
    THEN /\ loop_co' = [loop_co EXCEPT ![i] =
                Finished(co, <<"cache_hit">>, SearchAnswer(200, got.value[1], TRUE, "cache_hit", now))]
         /\ SetCache(got.cache)
    ELSE IF has_serpapi_key /\ Strip(IF co.request.gtin # "" THEN co.request.gtin
                                     ELSE co.request.title) # ""
         THEN /\ loop_co' = [loop_co EXCEPT ![i] =
                    [co EXCEPT !.pc = "executor",
                               !.log = <<"cache_miss", "provider">>]]
              /\ SetCache(got.cache)
         ELSE /\ \E set_raises \in RedisFaults(redis_connected) :
                    SetCache(CacheSet(got.cache, SearchKey(co.request), ResultList(<<>>), now,
                                      redis_connected, set_raises))
              /\ loop_co' = [loop_co EXCEPT ![i] =
                    Finished(co, <<"cache_miss", "cache_set">>,
                             SearchAnswer(200, ResultList(<<>>), FALSE, "no_call", now))]

LoopSearch(i, r) ==
    /\ loop_running = 0 /\ loop_co[i].pc = "none"
    /\ \E redis_raises \in RedisFaults(redis_connected) :
          LoopSearchAfterGet(i, Coroutine("run", "search", r, <<>>, <<>>, <<>>),
                             CacheGet(Cache, SearchKey(r), now, redis_connected, redis_raises))
    /\ UNCHANGED loop_running
    /\ LoopUnchanged

\* the executor thread is done with _search: the coroutine is resumed
LoopSearchFinish(i) ==
    /\ loop_running = 0 /\ loop_co[i].pc = "executor"
    /\ \E outcome \in SearchOutcomes, redis_raises \in RedisFaults(redis_connected) :
          IF outcome.raises
          THEN /\ loop_co' = [loop_co EXCEPT ![i] =
                     Finished(loop_co[i], loop_co[i].log,
                              SearchAnswer(500, ResultList(<<>>), FALSE, CallPath(outcome), now))]
               /\ UNCHANGED cacheVars
          ELSE /\ loop_co' = [loop_co EXCEPT ![i] =
                     Finished(loop_co[i], loop_co[i].log \o <<"cache_set">>,
                              SearchAnswer(200, ResultList(outcome.results), FALSE,
                                            CallPath(outcome), now))]
               /\ SetCache(CacheSet(Cache, SearchKey(loop_co[i].request),
                                    ResultList(outcome.results), now, redis_connected,
                                    redis_raises))
    /\ UNCHANGED loop_running
    /\ LoopUnchanged

InitLoop ==
    /\ has_serpapi_key \in BOOLEAN
    /\ redis_connected \in BOOLEAN
    /\ redis_store = <<>> /\ memory_cache = <<>> /\ memory_timestamps = <<>>
    /\ now = 0
    /\ pc = "off"
    /\ req = <<>> /\ eng = <<>> /\ resp = <<>> /\ prev = <<>>
    /\ loop_co = [i \in Slots |-> NoCoroutine]
    /\ loop_running = 0
    /\ IdleDedup /\ IdleKey /\ IdleEngine /\ IdleFn

NextLoop ==
    \E i \in Slots :
       \/ \E product \in LoopDetectRequests :
             LoopDetect(i, product) \/ LoopDetectEnrich(i, product)
       \/ LoopDetectEnriched(i)
       \/ LoopProviderReturn(i)
       \/ \E r \in SearchRequests : LoopSearch(i, r)
       \/ LoopSearchFinish(i)

SpecLoop == InitLoop /\ [][NextLoop]_vars

(***************************************************************************)
(* serpapi_service.py: _normalize_for_comparison,                          *)
(* _extract_key_product_words, _detect_product_type,                       *)
(* _calculate_relevance_score                                              *)
(***************************************************************************)

\* re.sub(r'[^a-z0-9\s]', ' ', c) of one character
KeepAlnum(c) == IF Contains(LowerLetters, c) \/ Contains(Digits, c) THEN c ELSE " "

RECURSIVE SpaceOthers(_)
SpaceOthers(s) == IF Len(s) = 0 THEN s ELSE KeepAlnum(CharAt(s, 1)) \o SpaceOthers(Tail(s))

\* re.sub(r'\s+', ' ', s)
RECURSIVE OneSpace(_)
OneSpace(s) ==
    IF Len(s) < 2 THEN s
    ELSE IF IsSpace(CharAt(s, 1)) /\ IsSpace(CharAt(s, 2)) THEN OneSpace(Tail(s))
    ELSE CharAt(s, 1) \o OneSpace(Tail(s))

_normalize_for_comparison(text) == Strip(OneSpace(SpaceOthers(Lower(text))))

\* s.replace(old, ''), old not empty
RECURSIVE Remove(_, _)
Remove(s, old) ==
    IF Len(s) < Len(old) THEN s
    ELSE IF StartsWith(s, old) THEN Remove(SubSeq(s, Len(old) + 1, Len(s)), old)
    ELSE CharAt(s, 1) \o Remove(Tail(s), old)

\* the length of the word a string starts with
RECURSIVE WordLen(_)
WordLen(s) == IF Len(s) = 0 \/ IsSpace(CharAt(s, 1)) THEN 0 ELSE 1 + WordLen(Tail(s))

\* s.split()
RECURSIVE Split(_)
Split(s) ==
    IF Len(s) = 0 THEN <<>>
    ELSE IF IsSpace(CharAt(s, 1)) THEN Split(Tail(s))
    ELSE <<SubSeq(s, 1, WordLen(s))>> \o Split(SubSeq(s, WordLen(s) + 1, Len(s)))

\* type_keywords, in the order of the dict
type_keywords ==
    <<
      [category |-> "mouse",
       keywords |-> <<"mouse", "mice", "trackball", "trackpad">>],
      [category |-> "keyboard",
       keywords |-> <<"keyboard", "keycap", "keycaps", "mechanical keyboard", "wireless keyboard">>],
      [category |-> "headset",
       keywords |-> <<"headset", "headphone", "headphones", "earphone", "earphones", "earbuds",
           "earbud", "over-ear", "on-ear", "in-ear", "iem", "noise cancelling",
           "noise canceling", "anc headphone">>],
      [category |-> "speaker",
       keywords |-> <<"speaker", "speakers", "soundbar", "subwoofer", "portable speaker">>],
      [category |-> "monitor",
       keywords |-> <<"monitor", "display", "screen">>],
      [category |-> "webcam",
       keywords |-> <<"webcam", "web cam">>],
      [category |-> "camera",
       keywords |-> <<"camera", "camcorder", "dslr", "mirrorless">>],
      [category |-> "microphone",
       keywords |-> <<"microphone", "mic ", " mic", "condenser mic">>],
      [category |-> "laptop",
       keywords |-> <<"laptop", "notebook", "chromebook", "ultrabook">>],
      [category |-> "desktop",
       keywords |-> <<"desktop", "tower", "all-in-one", "mini pc">>],
      [category |-> "tablet",
       keywords |-> <<"tablet", "ipad">>],
      [category |-> "phone",
       keywords |-> <<"phone", "iphone", "smartphone", "galaxy s", "galaxy z">>],
      [category |-> "watch",
       keywords |-> <<"watch", "smartwatch", "fitness tracker", "fitness band">>],
      [category |-> "console",
       keywords |-> <<"console", "playstation", "xbox", "nintendo switch", "gaming console">>],
      [category |-> "controller",
       keywords |-> <<"controller", "gamepad", "joystick">>],
      [category |-> "router",
       keywords |-> <<"router", "modem", "mesh", "wifi system">>],
      [category |-> "charger",
       keywords |-> <<"charger", "charging", "power bank", "powerbank", "battery pack">>],
      [category |-> "cable",
       keywords |-> <<"cable", "cord", "adapter", "dongle", "hub", "dock", "docking station">>],
      [category |-> "mousepad",
       keywords |-> <<"mousepad", "mouse pad", "desk mat", "deskmat">>],
      [category |-> "case",
       keywords |-> <<"case", "cover", "sleeve", "pouch">>],
      [category |-> "storage",
       keywords |-> <<"ssd", "hdd", "hard drive", "flash drive", "usb drive", "memory card",
           "sd card", "external drive">>],
      [category |-> "vacuum",
       keywords |-> <<"vacuum", "vacuum cleaner", "cordless vacuum", "robot vacuum">>],
      [category |-> "air_purifier",
       keywords |-> <<"air purifier", "air cleaner", "hepa filter", "hepa purifier">>],
      [category |-> "tv",
       keywords |-> <<"television", " tv ", "smart tv", "oled tv", "qled tv", "4k tv">>],
      [category |-> "printer",
       keywords |-> <<"printer", "inkjet", "laser printer", "all-in-one printer">>],
      [category |-> "gpu",
       keywords |-> <<"graphics card", "gpu", "video card", "geforce", "radeon">>],
      [category |-> "cpu",
       keywords |-> <<"processor", "cpu", "ryzen", "intel core">>],
      [category |-> "ram",
       keywords |-> <<"ram", "memory module", "ddr4", "ddr5">>],
      [category |-> "headband",
       keywords |-> <<"headband">>],
      [category |-> "earpad",
       keywords |-> <<"ear pad", "earpad", "ear cushion", "replacement pad">>],
      [category |-> "3d_printer",
       keywords |-> <<"3d printer", "3d printing", "fdm printer", "resin printer",
           "filament printer">>],
      [category |-> "dac",
       keywords |-> <<"dac", "digital analog converter", "digital-to-analog", "audio decoder",
           "headphone amp">>],
      [category |-> "amplifier",
       keywords |-> <<"amplifier", "amp ", " amp", "preamp", "preamplifier">>],
      [category |-> "espresso",
       keywords |-> <<"espresso", "coffee machine", "coffee maker", "barista">>],
      [category |-> "air_fryer",
       keywords |-> <<"air fryer", "air fry">>],
      [category |-> "stand_mixer",
       keywords |-> <<"stand mixer", "mixer">>],
      [category |-> "smart_home",
       keywords |-> <<"smart speaker", "smart display", "echo dot", "echo show", "google home",
           "homepod">>],
      [category |-> "drone",
       keywords |-> <<"drone", "quadcopter", "fpv drone">>]
    >>

noise_words ==
    {
      "wireless", "wired", "bluetooth", "gaming", "mouse", "keyboard", "headphones",
      "headset", "earbuds", "earphones", "speaker", "monitor", "laptop", "tablet",
      "phone", "smartphone", "watch", "camera", "with", "for", "and", "the", "a", "an",
      "in", "on", "at", "to", "of", "by", "from", "up", "new", "latest", "best", "top",
      "compatible", "includes", "featuring", "features", "premium", "ultra",
      "lightweight", "ergonomic", "portable", "compact", "high", "performance",
      "professional", "advanced", "sensor", "programmable", "buttons", "button",
      "battery", "life", "long", "dpi", "rgb", "led", "usb", "type", "optical",
      "mechanical", "noise", "cancelling", "canceling", "active", "passive", "over",
      "ear", "true", "stereo", "black", "white", "blue", "red", "green", "silver",
      "gold", "gray", "grey", "pink", "purple", "orange", "yellow", "pc", "mac",
      "windows", "macos", "ios", "android", "chrome", "edition", "version",
      "generation", "gen", "series"
    }

MinKeyWordChars == 2

KeyWordsOf(normalized) ==
    {w \in Range(Split(normalized)) : w \notin noise_words /\ Len(w) >= MinKeyWordChars}

WithoutBrand(normalized, brand_lower) ==
    IF brand_lower # "" THEN Strip(Remove(normalized, brand_lower)) ELSE normalized

_extract_key_product_words(title, brand) ==
    KeyWordsOf(WithoutBrand(_normalize_for_comparison(title), Strip(Lower(brand))))

\* \w of a regular expression
IsWordChar(c) == Contains(Letters, c) \/ Contains(Digits, c) \/ c = "_"

\* \b between s[k] and s[k + 1] (1-based; k = 0 is the start of s)
WordBoundary(s, k) ==
    (k >= 1 /\ IsWordChar(CharAt(s, k))) # (k < Len(s) /\ IsWordChar(CharAt(s, k + 1)))

MatchesAt(s, kw, i) ==
    /\ SubSeq(s, i, i + Len(kw) - 1) = kw
    /\ WordBoundary(s, i - 1)
    /\ WordBoundary(s, i + Len(kw) - 1)

MatchStarts(s, kw) == {i \in 1..(Len(s) - Len(kw) + 1) : MatchesAt(s, kw, i)}

Least(S) == CHOOSE x \in S : \A y \in S : x <= y

\* re.search(r'\b' + kw + r'\b', s): where the leftmost match starts, 0 for
\* no match
SearchStartOf(s, kw) == IF MatchStarts(s, kw) = {} THEN 0 ELSE Least(MatchStarts(s, kw))

\* the match of the first keyword of a category that matches at all
RECURSIVE CategoryStart(_, _)
CategoryStart(s, keywords) ==
    IF keywords = <<>> THEN 0
    ELSE IF MatchStarts(s, Head(keywords)) # {} THEN SearchStartOf(s, Head(keywords))
    ELSE CategoryStart(s, Tail(keywords))

\* candidates: the categories with a match, with where it starts
Candidates(title_lower) ==
    {c \in DOMAIN type_keywords : CategoryStart(title_lower, type_keywords[c].keywords) > 0}

\* candidates.sort(key=position) is stable: of the earliest matches the one
\* of the category that comes first in the dict
EarliestOf(title_lower, candidates) ==
    Least({c \in candidates :
              \A d \in candidates :
                 CategoryStart(title_lower, type_keywords[c].keywords)
                    <= CategoryStart(title_lower, type_keywords[d].keywords)})

TypeOf(title_lower, candidates) ==
    IF candidates = {} THEN ""
    ELSE type_keywords[EarliestOf(title_lower, candidates)].category

\* "" stands for None
_detect_product_type(title) == TypeOf(Lower(title), Candidates(Lower(title)))

\* a score as a fraction of whole numbers
Rational(num, den) == [num |-> num, den |-> den]

\* min(score, 1.0) of the sum of the three credits, in thousandths
CappedSum(brand_credit, model_credit, key_credit) ==
    IF brand_credit * model_credit.den * key_credit.den
         + model_credit.num * key_credit.den + key_credit.num * model_credit.den
       > 1000 * model_credit.den * key_credit.den
    THEN Rational(1000, 1000)
    ELSE Rational(brand_credit * model_credit.den * key_credit.den
                    + model_credit.num * key_credit.den
                    + key_credit.num * model_credit.den,
                  1000 * model_credit.den * key_credit.den)

\* the type check: both types detected and different
TypeMismatch(original_type, result_type) ==
    original_type # "" /\ result_type # "" /\ original_type # result_type

\* a brand check that never misses the brand
BrandNeverMissing(brand_lower, result_normalized) == FALSE

\* the brand check: a known brand that is not in the result
BrandMissing(brand_lower, result_normalized) ==
    /\ brand_lower # "" /\ brand_lower # "unknown"
    /\ ~Contains(result_normalized, brand_lower)

BrandCredit(brand_lower) ==
    IF brand_lower # "" /\ brand_lower # "unknown" THEN 200 ELSE 50

\* sum(1 for w in model_words if w in result_normalized)
Matched(model_words, result_normalized) ==
    Cardinality({i \in DOMAIN model_words : Contains(result_normalized, model_words[i])})

WordsCredit(model_words, result_normalized) ==
    IF model_words = <<>> THEN Rational(0, 1)
    ELSE Rational(500 * Matched(model_words, result_normalized), Len(model_words))

CleanCredit(original_model, model_clean, result_normalized) ==
    IF Contains(result_normalized, model_clean) THEN Rational(500, 1)
    ELSE IF _is_sku_like(original_model) THEN Rational(100, 1)
    ELSE WordsCredit(Split(model_clean), result_normalized)

ModelCredit(original_model, model_lower, result_normalized) ==
    IF model_lower # "" /\ model_lower # "unknown"
    THEN CleanCredit(original_model, Strip(SpaceOthers(model_lower)), result_normalized)
    ELSE Rational(0, 1)

KeyCredit(original_keys, result_keys) ==
    IF original_keys # {}
    THEN Rational(300 * Cardinality(original_keys \cap result_keys),
                  Cardinality(original_keys))
    ELSE Rational(0, 1)

Scored(result_title, original_title, original_brand, original_model, result_normalized) ==
    IF TypeMismatch(_detect_product_type(original_title), _detect_product_type(result_title))
    THEN Rational(0, 1000)
    ELSE IF BrandMissing(Strip(Lower(original_brand)), result_normalized)
    THEN Rational(0, 1000)
    ELSE CappedSum(BrandCredit(Strip(Lower(original_brand))),
                   ModelCredit(original_model, Strip(Lower(original_model)),
                               result_normalized),
                   KeyCredit(_extract_key_product_words(original_title, original_brand),
                             _extract_key_product_words(result_title, original_brand)))

_calculate_relevance_score(result_title, original_title, original_brand, original_model) ==
    Scored(result_title, original_title, original_brand, original_model,
           _normalize_for_comparison(result_title))

(***************************************************************************)
(* The helper functions on their own: one call per input                   *)
(***************************************************************************)

ScoreResultTitles ==
    {"Sony WH5 Headphones", "SONY-WH5 headset", "Sony mouse pad", "Gaming Mouse for Sony",
     "wh5", "JBL WH5 Wireless Headphones", "unknown gadget", "Logitech G Pro X", ""}

ScoreOriginalTitles ==
    {"Sony WH5 Wireless Headphones", "Logitech G Pro X Mouse", "widget", " Sony WH5 "}

ScoreBrands == {"", "Unknown", "unknown", "Sony", " SONY ", "Logitech"}

ScoreModels == {"", "Unknown", "WH5", "WH1000XM5", "G Pro X", "WH-5"}

ScoreCalls ==
    {[fn |-> "_calculate_relevance_score", result_title |-> r, original_title |-> o,
      original_brand |-> b, original_model |-> m] :
        r \in ScoreResultTitles, o \in ScoreOriginalTitles, b \in ScoreBrands,
        m \in ScoreModels}

CallRelevanceScore ==
    /\ fn_pc = "call" /\ fn_call[1].fn = "_calculate_relevance_score"
    /\ fn_result' = <<_calculate_relevance_score(fn_call[1].result_title,
                                                 fn_call[1].original_title,
                                                 fn_call[1].original_brand,
                                                 fn_call[1].original_model)>>
    /\ fn_pc' = "done"
    /\ UNCHANGED <<fn_call, loopVars, dedupVars, keyVars, engineVars, apiVars>>

(***************************************************************************)
(* services/similarity.py: jaro_winkler_similarity                         *)
(***************************************************************************)

Max(a, b) == IF a >= b THEN a ELSE b
Min(a, b) == IF a <= b THEN a ELSE b

\* max(len(s1), len(s2)) // 2 - 1, at least 0
match_window(s1, s2) == Max(0, (Max(Len(s1), Len(s2)) \div 2) - 1)

\* a search that only looks at s2[i] and what comes after it
ForwardCandidates(s1, s2, w, i, s2_matches) ==
    {j \in i..Min(i + w, Len(s2)) : j \notin s2_matches /\ CharAt(s1, i) = CharAt(s2, j)}

\* the positions of s2 (1-based) the inner loop can match s1[i] with
MatchCandidates(s1, s2, w, i, s2_matches) ==
    {j \in Max(1, i - w)..Min(i + w, Len(s2)) :
        j \notin s2_matches /\ CharAt(s1, i) = CharAt(s2, j)}

Matching(s1_matches, s2_matches) == [s1 |-> s1_matches, s2 |-> s2_matches]

\* the first loop from position i on: s1[i] takes the first free equal
\* character of s2 in its window
RECURSIVE FindMatches(_, _, _, _, _)
FindMatches(s1, s2, w, i, m) ==
    IF i > Len(s1) THEN m
    ELSE IF MatchCandidates(s1, s2, w, i, m.s2) = {}
         THEN FindMatches(s1, s2, w, i + 1, m)
         ELSE FindMatches(s1, s2, w, i + 1,
                          Matching(m.s1 \cup {i},
                                   m.s2 \cup {Least(MatchCandidates(s1, s2, w, i, m.s2))}))

\* the n-th element of a set of numbers, in ascending order
RECURSIVE Nth(_, _)
Nth(S, n) == IF n = 1 THEN Least(S) ELSE Nth(S \ {Least(S)}, n - 1)

\* the second loop: the matched characters of s1 and of s2, each in its own
\* order, are compared pair by pair
Transpositions(s1, s2, m) ==
    Cardinality({n \in 1..Cardinality(m.s1) :
                    CharAt(s1, Nth(m.s1, n)) # CharAt(s2, Nth(m.s2, n))})

\* the length of the common prefix, at most 4
PrefixBonusChars == 4

RECURSIVE CommonPrefix(_, _, _)
CommonPrefix(s1, s2, i) ==
    IF i > Min(Min(Len(s1), Len(s2)), PrefixBonusChars) THEN i - 1
    ELSE IF CharAt(s1, i) = CharAt(s2, i) THEN CommonPrefix(s1, s2, i + 1)
    ELSE i - 1

\* jaro = (m/l1 + m/l2 + (m - t/2)/m) / 3 as a fraction
Jaro(l1, l2, matches, transpositions) ==
    Rational(2 * l2 * matches * matches + 2 * l1 * matches * matches
                + (2 * matches - transpositions) * l1 * l2,
             6 * l1 * l2 * matches)

\* min(1.0, jaro + 0.1 * prefix * (1 - jaro))
Winkler(jaro, prefix) ==
    IF 10 * jaro.num + prefix * (jaro.den - jaro.num) > 10 * jaro.den
    THEN Rational(1, 1)
    ELSE Rational(10 * jaro.num + prefix * (jaro.den - jaro.num), 10 * jaro.den)

\* what the call computed: the two counts and the similarity
Similarity(matches, transpositions, value) ==
    [matches |-> matches, transpositions |-> transpositions, value |-> value]

JaroOf(s1, s2, m) ==
    IF Cardinality(m.s1) = 0 THEN Similarity(0, 0, Rational(0, 1))
    ELSE Similarity(Cardinality(m.s1), Transpositions(s1, s2, m),
                    Winkler(Jaro(Len(s1), Len(s2), Cardinality(m.s1),
                                 Transpositions(s1, s2, m)),
                            CommonPrefix(s1, s2, 1)))

\* the function after lower() and strip()
JaroStripped(s1, s2) ==
    IF s1 = s2 THEN Similarity(0, 0, Rational(1, 1))
    ELSE JaroOf(s1, s2, FindMatches(s1, s2, match_window(s1, s2), 1, Matching({}, {})))

jaro_winkler_similarity(s1, s2) ==
    IF s1 = "" \/ s2 = "" THEN Similarity(0, 0, Rational(0, 1))
    ELSE JaroStripped(Strip(Lower(s1)), Strip(Lower(s2)))

MaxJaroLen == 5

RECURSIVE StringsUpTo(_)
StringsUpTo(n) ==
    IF n = 0 THEN {""}
    ELSE StringsUpTo(n - 1)
         \cup {s \o c : s \in {t \in StringsUpTo(n - 1) : Len(t) = n - 1}, c \in {"a", "b"}}

\* strings with repeated characters, the empty string, and strings that
\* lower() and strip() change
JaroStrings == StringsUpTo(MaxJaroLen) \cup {" ", "A", " ab", "aB ", "abcabc", "cabbac"}

JaroCalls == {[fn |-> "jaro_winkler_similarity", s1 |-> a, s2 |-> b] : a, b \in JaroStrings}

CallJaroWinkler ==
    /\ fn_pc = "call" /\ fn_call[1].fn = "jaro_winkler_similarity"
    /\ fn_result' = <<jaro_winkler_similarity(fn_call[1].s1, fn_call[1].s2)>>
    /\ fn_pc' = "done"
    /\ UNCHANGED <<fn_call, loopVars, dedupVars, keyVars, engineVars, apiVars>>

\* the result lists apply_affiliate_links is given: what _search returns,
\* sorted by price, for answers with and without direct links
AffiliateInputs ==
    {SortByPrice(_search(Answered(raw))) :
        raw \in {<<>>, <<RawShop>>, <<RawShop, RawWalmartDirect>>,
                 <<RawWalmartDirect, RawNoLink>>, <<RawWalmartNoLink>>}}

AffiliateCalls == {[fn |-> "apply_affiliate_links", results |-> r] : r \in AffiliateInputs}

\* the list is changed in place: when make_branded_link raises, the items
\* before the raising one have been passed over and the list is as given
CallApplyAffiliateLinks ==
    /\ fn_pc = "call" /\ fn_call[1].fn = "apply_affiliate_links"
    /\ fn_result' = <<[raised |-> AffiliateRaises(fn_call[1].results),
                       results |-> IF AffiliateRaises(fn_call[1].results)
                                   THEN fn_call[1].results
                                   ELSE apply_affiliate_links(fn_call[1].results)]>>
    /\ fn_pc' = "done"
    /\ UNCHANGED <<fn_call, loopVars, dedupVars, keyVars, engineVars, apiVars>>

\* the locales a request can carry: None, or country, language and timezone
LocaleCountries == {"", "IL", "us", "zz", "USA", "gb"}
LocaleLanguages == {"", "en", "he-IL", "en-US", "de-DE-x", "pt-br", "fr-FRA"}
LocaleTimezones == {"", "Asia/Jerusalem", "Europe/London", "America/New_York", "Europe/Paris"}

Locales ==
    {<<>>} \cup {<<[country |-> c, language |-> l, timezone |-> tz]>> :
                     c \in LocaleCountries, l \in LocaleLanguages, tz \in LocaleTimezones}

ResolveCalls == {[fn |-> "_resolve_search_locations", user_locale |-> u] : u \in Locales}

CallResolveLocations ==
    /\ fn_pc = "call" /\ fn_call[1].fn = "_resolve_search_locations"
    /\ fn_result' = <<_resolve_search_locations(fn_call[1].user_locale)>>
    /\ fn_pc' = "done"
    /\ UNCHANGED <<fn_call, loopVars, dedupVars, keyVars, engineVars, apiVars>>

InitHelpers ==
    /\ fn_call \in {<<call>> : call \in ScoreCalls \cup JaroCalls \cup AffiliateCalls
                                       \cup ResolveCalls}
    /\ fn_result = <<>>
    /\ fn_pc = "call"
    /\ IdleDedup /\ IdleKey /\ IdleEngine /\ IdleApi /\ IdleLoop

NextHelpers ==
    \/ CallRelevanceScore \/ CallJaroWinkler \/ CallApplyAffiliateLinks
    \/ CallResolveLocations

SpecHelpers == InitHelpers /\ [][NextHelpers]_vars

(***************************************************************************)
(* CacheService on its own: get, set, delete and clear_expired in any      *)
(* order, with Redis answering, failing or losing keys.  fn_call holds the *)
(* last operation, fn_result what it returned, and prev what set last      *)
(* stored under each key and when (dropped by delete).                     *)
(***************************************************************************)

CacheKeys == {"dealink:product:gtin:08100433", "dealink:search:1"}

CachedOffer ==
    model_dump(PriceMatch("walmart", "Sony WH5", 8000, 0, 8000,
                          "https://www.walmart.com/ip/1", <<200>>, "new"))

CacheValues ==
    {Buckets(<<CachedOffer>>, <<>>, <<>>), Buckets(<<>>, <<>>, <<>>), ResultList(<<>>)}

\* what get saw of the key before it acted
Seen(cache, key, t, redis_up) ==
    [redis_hit |-> redis_up /\ RedisLive(cache, key, t),
     in_memory |-> key \in DOMAIN cache.mc,
     timestamp |-> IF key \in DOMAIN cache.mt THEN <<cache.mt[key]>> ELSE <<>>]

CacheOp(fn, key, value, seen) ==
    [fn |-> fn, key |-> key, value |-> value, at |-> now, seen |-> seen]

CacheRest == <<dedupVars, keyVars, engineVars, loopVars, has_serpapi_key, redis_connected,
               pc, req, eng, resp>>

CacheOpGet(key, redis_raises) ==
    /\ fn_pc = "cache"
    /\ fn_call' = <<CacheOp("get", key, <<>>,
                            Seen(Cache, key, now, redis_connected /\ ~redis_raises))>>
    /\ fn_result' = CacheGet(Cache, key, now, redis_connected, redis_raises).value
    /\ SetCache(CacheGet(Cache, key, now, redis_connected, redis_raises).cache)
    /\ UNCHANGED <<CacheRest, now, fn_pc, prev>>

CacheOpSet(key, value, redis_raises) ==
    /\ fn_pc = "cache"
    /\ fn_call' = <<CacheOp("set", key, <<value>>, <<>>)>>
    /\ fn_result' = <<>>
    /\ SetCache(CacheSet(Cache, key, value, now, redis_connected, redis_raises))
    /\ prev' = With(prev, key, [value |-> value, at |-> now])
    /\ UNCHANGED <<CacheRest, now, fn_pc>>

CacheOpDelete(key, redis_raises) ==
    /\ fn_pc = "cache"
    /\ fn_call' = <<CacheOp("delete", key, <<>>, <<>>)>>
    /\ fn_result' = <<>>
    /\ SetCache(CacheDelete(Cache, key, redis_connected, redis_raises))
    /\ prev' = Without(prev, key)
    /\ UNCHANGED <<CacheRest, now, fn_pc>>

CacheOpClearExpired ==
    /\ fn_pc = "cache"
    /\ fn_call' = <<CacheOp("clear_expired", "", <<>>, <<>>)>>
    /\ fn_result' = <<clear_expired(Cache, now).removed>>
    /\ SetCache(clear_expired(Cache, now).cache)
    /\ UNCHANGED <<CacheRest, now, fn_pc, prev>>

\* Redis drops a key on its own (eviction, restart)
RedisLoses(key) ==
    /\ fn_pc = "cache"
    /\ key \in DOMAIN redis_store
    /\ redis_store' = Without(redis_store, key)
    /\ UNCHANGED <<CacheRest, now, fnVars, prev, memory_cache, memory_timestamps>>

\* time passes; Redis drops the keys whose TTL is over
CacheTick ==
    /\ fn_pc = "cache"
    /\ now < MaxTime
    /\ now' = now + 1
    /\ LET live == {k \in DOMAIN redis_store : redis_store[k].expires > now + 1}
       IN  redis_store' = IF live = {} THEN <<>> ELSE [k \in live |-> redis_store[k]]
    /\ UNCHANGED <<CacheRest, fnVars, prev, memory_cache, memory_timestamps>>

InitCache ==
    /\ has_serpapi_key = FALSE
    /\ redis_connected \in BOOLEAN
    /\ redis_store = <<>> /\ memory_cache = <<>> /\ memory_timestamps = <<>>
    /\ now = 0
    /\ pc = "off"
    /\ req = <<>> /\ eng = <<>> /\ resp = <<>> /\ prev = <<>>
    /\ fn_call = <<>> /\ fn_result = <<>> /\ fn_pc = "cache"
    /\ IdleDedup /\ IdleKey /\ IdleEngine /\ IdleLoop

NextCache ==
    \/ \E key \in CacheKeys, redis_raises \in RedisFaults(redis_connected) :
          \/ CacheOpGet(key, redis_raises)
          \/ CacheOpDelete(key, redis_raises)
          \/ \E value \in CacheValues : CacheOpSet(key, value, redis_raises)
    \/ CacheOpClearExpired
    \/ \E key \in CacheKeys : RedisLoses(key)
    \/ CacheTick

SpecCache == InitCache /\ [][NextCache]_vars

(***************************************************************************)
(* The provider-response memo of serpapi_service: _get_cached and          *)
(* _set_cached on the module-level dict _cache                             *)
(***************************************************************************)

\* CACHE_TTL = 3600 seconds, one hour of the model's clock
CACHE_TTL == TicksPerHour

\* _set_cached prunes when len(_cache) exceeds this; 500 in the code, and
\* small here so that a handful of keys reaches it
MemoPruneAbove == 3

\* the clock runs far enough for the oldest entries to expire
MemoMaxTime == CACHE_TTL + 1

\* digests of query + location
MemoKeys == 1..(MemoPruneAbove + 2)

MemoData == "shopping_results"

\* the entries older than the TTL are dropped
Pruned(cache, t) ==
    IF {k \in DOMAIN cache : ~(t - cache[k].timestamp > CACHE_TTL)} = {} THEN <<>>
    ELSE [k \in {k \in DOMAIN cache : ~(t - cache[k].timestamp > CACHE_TTL)} |-> cache[k]]

PruneIfLarge(cache, t) ==
    IF Cardinality(DOMAIN cache) > MemoPruneAbove THEN Pruned(cache, t) ELSE cache

\* _set_cached at time t
_set_cached(cache, key, data, t) ==
    PruneIfLarge(With(cache, key, [timestamp |-> t, data |-> data]), t)

\* _get_cached at time t: [value, cache]; value is <<>> for None
_get_cached(cache, key, t) ==
    IF key \in DOMAIN cache
    THEN IF t - cache[key].timestamp < CACHE_TTL
         THEN [value |-> <<cache[key].data>>, cache |-> cache]
         ELSE [value |-> <<>>, cache |-> Without(cache, key)]
    ELSE [value |-> <<>>, cache |-> cache]

MemoRest == <<dedupVars, keyVars, loopVars, fr_call, fr_result, fr_pc, has_serpapi_key,
              redis_connected, cacheVars, pc, req, eng, resp, prev>>

MemoSet(key) ==
    /\ fn_pc = "memo"
    /\ _cache' = _set_cached(_cache, key, MemoData, now)
    /\ fn_call' = <<[fn |-> "_set_cached", key |-> key, at |-> now]>>
    /\ fn_result' = <<>>
    /\ UNCHANGED <<MemoRest, now, fn_pc>>

MemoGet(key) ==
    /\ fn_pc = "memo"
    /\ _cache' = _get_cached(_cache, key, now).cache
    /\ fn_call' = <<[fn |-> "_get_cached", key |-> key, at |-> now]>>
    /\ fn_result' = _get_cached(_cache, key, now).value
    /\ UNCHANGED <<MemoRest, now, fn_pc>>

MemoTick ==
    /\ fn_pc = "memo"
    /\ now < MemoMaxTime
    /\ now' = now + 1
    /\ fn_call' = <<>> /\ fn_result' = <<>>
    /\ UNCHANGED <<MemoRest, _cache, fn_pc>>

InitMemo ==
    /\ _cache = <<>>
    /\ fr_call = <<>> /\ fr_result = <<>> /\ fr_pc = "idle"
    /\ fn_call = <<>> /\ fn_result = <<>> /\ fn_pc = "memo"
    /\ IdleDedup /\ IdleKey /\ IdleApi /\ IdleLoop

NextMemo ==
    \/ \E key \in MemoKeys : MemoSet(key) \/ MemoGet(key)
    \/ MemoTick

SpecMemo == InitMemo /\ [][NextMemo]_vars

(***************************************************************************)
(* Properties of the two endpoints and of find_real_prices                 *)
(***************************************************************************)

\* the answer now in resp is a DetectResponse-or-error of /detect-product
DetectAnswered == resp # <<>> /\ resp[1].endpoint = "detect"

\* the answer now in resp is that of /search
SearchAnswered == resp # <<>> /\ resp[1].endpoint = "search"

NonDecreasingByTotal(s) == \A i \in 1..(Len(s) - 1) : s[i].total <= s[i + 1].total

HasAffiliateUrls(results) ==
    results.kind = "list"
    /\ \A i \in DOMAIN results.items :
          results.items[i].affiliate_url # <<>> /\ results.items[i].affiliate_url[1] # ""

\* C1: a /search that missed the cache (cached:false), directly followed
\* within the TTL by a /search with the same title and gtin, is answered the
\* second time with cached:true and the same results, and every result of
\* both answers carries a non-empty affiliate_url
C1_AsStated ==
    (/\ SearchAnswered /\ prev # <<>>
     /\ prev[1].resp.status = 200 /\ ~prev[1].resp.cached
     /\ prev[1].req = req[1]
     /\ resp[1].at - prev[1].resp.at < ttl_seconds)
    => /\ resp[1].status = 200
       /\ resp[1].cached
       /\ resp[1].results = prev[1].resp.results
       /\ HasAffiliateUrls(prev[1].resp.results)
       /\ HasAffiliateUrls(resp[1].results)

\* C2: in every DetectResponse same_products has at most 25 entries,
\* used_products at most 10, and both are sorted non-decreasing by total
C2_CapsAndOrder ==
    (DetectAnswered /\ resp[1].status = 200)
    => /\ Len(resp[1].same_products) <= 25
       /\ Len(resp[1].used_products) <= 10
       /\ NonDecreasingByTotal(resp[1].same_products)
       /\ NonDecreasingByTotal(resp[1].used_products)

\* a cache hit that serves full buckets: 25 new and 10 used offers
C2_Witness ==
    /\ DetectAnswered /\ resp[1].status = 200
    /\ resp[1].path = "cache_hit"
    /\ Len(resp[1].same_products) = 25
    /\ Len(resp[1].used_products) = 10

ProviderOrSearchPage(url) == Contains(url, "google.com") \/ IsSearchPageUrl(url)

\* C3: no PriceMatch returned by find_real_prices has a url that contains
\* the search provider's domain or matches a store-search-page pattern
C3_AsStated ==
    (fr_pc = "done" /\ ~fr_result[1].raised)
    => /\ \A i \in DOMAIN fr_result[1].same : ~ProviderOrSearchPage(fr_result[1].same[i].url)
       /\ \A i \in DOMAIN fr_result[1].used : ~ProviderOrSearchPage(fr_result[1].used[i].url)

\* a detection request with a valid title has been answered
ValidAnswered == DetectAnswered /\ req # <<>> /\ Valid(req[1])

AllEmpty(answer) ==
    answer.same_products = <<>> /\ answer.similar_products = <<>>
    /\ answer.used_products = <<>>

C5_AsStated ==
    (DetectAnswered /\ req # <<>> /\ ~Valid(req[1]))
    => /\ resp[1].status = 400
       /\ resp[1].body = "error,status_code"
       /\ resp[1].touched = {}

IsMockAnswer(answer) ==
    /\ Len(answer.same_products) = 3
    /\ \A i \in DOMAIN answer.same_products :
          /\ answer.same_products[i].platform
                \in {"walmart", "amazon", "ebay", "bestbuy", "target"}
          /\ answer.same_products[i].condition = "new"
    /\ \A i, j \in DOMAIN answer.same_products :
          i # j => answer.same_products[i].platform # answer.same_products[j].platform
    /\ NonDecreasingByTotal(answer.same_products)
    /\ answer.similar_products = <<>>
    /\ answer.used_products = <<>>

\* C6: with no cache entry for the product and the provider key absent, or
\* configured while every provider call fails, a valid request is answered
\* with exactly 3 mock same_products of 3 different stores of the 5-store
\* list, all "new", sorted by total, the other two lists empty
C6_AsStated ==
    (/\ ValidAnswered
     /\ resp[1].path \in {"mock_no_key", "mock_after_error", "search", "search_empty"}
     /\ ~has_serpapi_key \/ resp[1].provider_down)
    => resp[1].status = 200 /\ IsMockAnswer(resp[1])

SavingsAsComputed(m, original_price) ==
    m.savings_percent = IF SavingsTenths(original_price, m.total) > 0
                        THEN <<SavingsTenths(original_price, m.total)>> ELSE <<>>

\* C9: in every DetectResponse the savings_percent of each same and used
\* match is round((original_price - total) / original_price * 100, 1) of the
\* response's own original_price, and absent when that is not positive
C9_AsStated ==
    (DetectAnswered /\ resp[1].status = 200)
    => /\ \A i \in DOMAIN resp[1].same_products :
             SavingsAsComputed(resp[1].same_products[i], resp[1].original_price)
       /\ \A i \in DOMAIN resp[1].used_products :
             SavingsAsComputed(resp[1].used_products[i], resp[1].original_price)

\* C10: in every DetectResponse same_products holds only "new" matches,
\* used_products only "used" or "refurbished" ones, and similar_products is
\* empty
C10_Buckets ==
    (DetectAnswered /\ resp[1].status = 200)
    => /\ \A i \in DOMAIN resp[1].same_products :
             resp[1].same_products[i].condition = "new"
       /\ \A i \in DOMAIN resp[1].used_products :
             resp[1].used_products[i].condition \in {"used", "refurbished"}
       /\ resp[1].similar_products = <<>>

\* an answer of a real search with offers in both buckets, a refurbished
\* one among the used
C10_Witness ==
    /\ DetectAnswered /\ resp[1].status = 200
    /\ resp[1].path = "search"
    /\ resp[1].same_products # <<>>
    /\ \E i \in DOMAIN resp[1].used_products :
          resp[1].used_products[i].condition = "refurbished"
    /\ \E i \in DOMAIN resp[1].used_products :
          resp[1].used_products[i].condition = "used"

ExternalCalls == {"gtin_lookup", "provider"}

CacheReads == {"cache_hit", "cache_miss"}

\* the cache was read before the k-th event of the log
ReadBefore(log, k) == \E j \in 1..(k - 1) : log[j] \in CacheReads

\* C11: in the log of every request (detection or /search) the cache read
\* comes before any external call (GTIN lookup, provider call), and a request
\* whose cache read hits makes no external call at all
C11_AsStated ==
    \A i \in DOMAIN loop_co :
       /\ \A k \in DOMAIN loop_co[i].log :
             loop_co[i].log[k] \in ExternalCalls => ReadBefore(loop_co[i].log, k)
       /\ (\E k \in DOMAIN loop_co[i].log : loop_co[i].log[k] = "cache_hit")
          => \A k \in DOMAIN loop_co[i].log : loop_co[i].log[k] \notin ExternalCalls

IsMockUrl(url) == \E i \in DOMAIN MockStores : url = MockUrl(Lower(MockStores[i]))

HoldsMock(matches) == \E i \in DOMAIN matches : IsMockUrl(matches[i].url)

HoldsReal(matches) == \E i \in DOMAIN matches : ~IsMockUrl(matches[i].url)

\* a cached value (a dict of dumped matches or a list of /search results)
\* with a mock match in it
DumpedMock(dicts) == \E i \in DOMAIN dicts : IsMockUrl(dicts[i].url.text)

CachedMock(value) ==
    IF value.kind = "dict"
    THEN DumpedMock(value.same) \/ DumpedMock(value.similar) \/ DumpedMock(value.used)
    ELSE \E i \in DOMAIN value.items : IsMockUrl(value.items[i].url)

AllMatches(answer) == answer.same_products \o answer.similar_products \o answer.used_products

\* C12: no answer of /detect-product holds mock and provider-derived matches
\* together, no entry of the memory cache or of Redis holds a mock match, and
\* no answer served from the cache holds one
C12_MockApart ==
    /\ \A k \in DOMAIN memory_cache : ~CachedMock(memory_cache[k])
    /\ \A k \in DOMAIN redis_store : ~CachedMock(json_loads(redis_store[k].data))
    /\ (DetectAnswered /\ resp[1].status = 200)
       => /\ ~(HoldsMock(AllMatches(resp[1])) /\ HoldsReal(AllMatches(resp[1])))
          /\ resp[1].path = "cache_hit" => ~HoldsMock(AllMatches(resp[1]))

\* a mock answer given while the cache holds the results of an earlier search
C12_Witness ==
    /\ DetectAnswered /\ resp[1].status = 200
    /\ resp[1].path = "mock_after_error"
    /\ HoldsMock(resp[1].same_products)
    /\ memory_cache # <<>>

\* the locations of a call whose provider calls do not all fail, and the
\* behaviours of the provider there
RECURSIVE Reachable(_, _)
Reachable(search_locations, pvs) ==
    IF pvs = <<>> THEN [locations |-> <<>>, pvs |-> <<>>]
    ELSE IF Head(pvs) = "down" THEN Reachable(Tail(search_locations), Tail(pvs))
    ELSE [locations |-> <<Head(search_locations)>>
                        \o Reachable(Tail(search_locations), Tail(pvs)).locations,
          pvs |-> <<Head(pvs)>> \o Reachable(Tail(search_locations), Tail(pvs)).pvs]

SomeDown(pvs) == \E i \in DOMAIN pvs : pvs[i] = "down"

SearchFailed == SearchAnswered /\ resp[1].path = "provider_failed"

\* C14 (as stated): a failure of the provider call of /search ends in HTTP
\* 500 and nothing is written to the cache for the request
C14_AsStated ==
    SearchFailed
    => /\ resp[1].status = 500
       /\ SearchKey(req[1]) \notin DOMAIN memory_cache
       /\ SearchKey(req[1]) \notin DOMAIN redis_store

\* C14: a failure of the provider call of /search is caught in _search: the
\* answer is HTTP 200 with no results, cached false and count 0, and the
\* empty list is written to the memory cache under the request's key
C14_FailureSwallowed ==
    SearchFailed
    => /\ resp[1].status = 200
       /\ resp[1].results = ResultList(<<>>)
       /\ ~resp[1].cached
       /\ resp[1].count = 0
       /\ SearchKey(req[1]) \in DOMAIN memory_cache
       /\ memory_cache[SearchKey(req[1])] = ResultList(<<>>)

\* the failed call was answered and Redis holds the empty list as well
C14_Witness ==
    /\ SearchFailed /\ resp[1].status = 200
    /\ SearchKey(req[1]) \in DOMAIN memory_cache
    /\ SearchKey(req[1]) \in DOMAIN redis_store

\* a provider call made for the request of slot i is outstanding
CallOutstanding(i) == loop_co[i].pc = "provider" \/ loop_co[i].pc = "executor"

\* C15: while a provider call of a request is outstanding, in the detection
\* flow as in the /search flow, its coroutine is suspended and the loop
\* thread is free to run the handler steps of other requests
C15_AsStated == \A i \in DOMAIN loop_co : CallOutstanding(i) => loop_running = 0

\* the detection request of slot i has seen a cache miss and has not yet
\* stored its result
MissedNotStored(i) ==
    /\ loop_co[i].endpoint = "detect" /\ loop_co[i].pc # "done"
    /\ \E k \in DOMAIN loop_co[i].log : loop_co[i].log[k] = "cache_miss"
    /\ \A k \in DOMAIN loop_co[i].log : loop_co[i].log[k] # "cache_set"

\* C16: while a detection request has seen a miss and not yet stored its
\* result, a concurrent detection request for the same product can take the
\* step that reads the cache, so that both miss, search and write
C16_AsStated ==
    \A i, j \in DOMAIN loop_co :
       (i # j /\ MissedNotStored(i))
       => /\ (loop_co[j].pc = "none" /\ ~NeedsEnrichment(ParsedOf(loop_co[i].request)))
             => ENABLED LoopDetect(j, loop_co[i].request)
          /\ (loop_co[j].pc = "enrich" /\ loop_co[j].request = loop_co[i].request)
             => ENABLED LoopDetectEnriched(j)

ScoreDone == fn_pc = "done" /\ fn_call[1].fn = "_calculate_relevance_score"

\* gate (a): both titles have a product type and the types differ
TypeGate(call) ==
    /\ _detect_product_type(call.original_title) # ""
    /\ _detect_product_type(call.result_title) # ""
    /\ _detect_product_type(call.original_title) # _detect_product_type(call.result_title)

\* gate (b) as stated: the brand is not empty and not "Unknown", and does
\* not occur (without regard to case) in the normalized result title
BrandGateAsStated(call) ==
    /\ call.original_brand # "" /\ call.original_brand # "Unknown"
    /\ ~Contains(_normalize_for_comparison(call.result_title), Lower(call.original_brand))

\* gate (b) of the code: the brand is judged lower-cased and stripped
BrandGate(call) ==
    /\ Strip(Lower(call.original_brand)) \notin {"", "unknown"}
    /\ ~Contains(_normalize_for_comparison(call.result_title),
                 Strip(Lower(call.original_brand)))

\* C17 (as stated): the score is 0.0 whenever the types differ or a brand
\* that is not empty and not "Unknown" is absent from the result
C17_AsStated ==
    (ScoreDone /\ (TypeGate(fn_call[1]) \/ BrandGateAsStated(fn_call[1])))
    => fn_result[1].num = 0

\* C17: the score is 0.0 whenever both titles have a product type and the
\* types differ, or the brand, lower-cased and stripped, is neither empty
\* nor "unknown" and is not in the normalized result title
C17_HardGates ==
    (ScoreDone /\ (TypeGate(fn_call[1]) \/ BrandGate(fn_call[1])))
    => fn_result[1].num = 0

\* the brand gate fires on a result that would otherwise score: same type,
\* model in the title
C17_Witness ==
    /\ ScoreDone
    /\ ~TypeGate(fn_call[1]) /\ BrandGate(fn_call[1])
    /\ Contains(_normalize_for_comparison(fn_call[1].result_title), "wh5")
    /\ fn_call[1].original_model = "WH5"
    /\ fn_result[1].num = 0

JaroDone == fn_pc = "done" /\ fn_call[1].fn = "jaro_winkler_similarity"

SameRational(a, b) == a.num * b.den = b.num * a.den

\* C18: jaro_winkler_similarity(a, b) = jaro_winkler_similarity(b, a), and
\* the match count and the transposition count are the same in both orders
C18_Symmetric ==
    JaroDone
    => /\ SameRational(fn_result[1].value,
                       jaro_winkler_similarity(fn_call[1].s2, fn_call[1].s1).value)
       /\ fn_result[1].matches
             = jaro_winkler_similarity(fn_call[1].s2, fn_call[1].s1).matches
       /\ fn_result[1].transpositions
             = jaro_winkler_similarity(fn_call[1].s2, fn_call[1].s1).transpositions

\* two different strings of different lengths with repeated characters,
\* matched out of order
C18_Witness ==
    /\ JaroDone
    /\ Len(fn_call[1].s1) # Len(fn_call[1].s2)
    /\ fn_result[1].matches >= 3
    /\ fn_result[1].transpositions >= 2

\* the total of every match of the list is at least its price
TotalsCoverPrices(matches) ==
    \A i \in DOMAIN matches : matches[i].total >= matches[i].price

\* C19 (as stated): every PriceMatch returned by find_real_prices has
\* total >= price, also when the total is the total_price of a seller offer
C19_AsStated ==
    (fr_pc = "done" /\ ~fr_result[1].raised)
    => TotalsCoverPrices(fr_result[1].same) /\ TotalsCoverPrices(fr_result[1].used)

AffiliateDone == fn_pc = "done" /\ fn_call[1].fn = "apply_affiliate_links"

\* the item is the given one with an affiliate_url added
LinkAdded(given, item) ==
    /\ item.affiliate_url # <<>>
    /\ item = [given EXCEPT !.affiliate_url = item.affiliate_url]

\* C20 (as stated): apply_affiliate_links returns the list it is given with
\* an affiliate_url added to every item, also to items whose url is empty,
\* and every other field of every item unchanged
C20_AsStated ==
    AffiliateDone
    => /\ ~fn_result[1].raised
       /\ Len(fn_result[1].results) = Len(fn_call[1].results)
       /\ \A i \in DOMAIN fn_call[1].results :
             LinkAdded(fn_call[1].results[i], fn_result[1].results[i])

\* apart from make_branded_link: a list whose
\* items all have an empty url is returned with an affiliate_url on each
EmptyUrlLinked ==
    (AffiliateDone /\ ~fn_result[1].raised)
    => \A i \in DOMAIN fn_result[1].results : fn_result[1].results[i].affiliate_url # <<>>

Offer(name, link, price) == [name |-> name, link |-> link, price |-> price]

OffersOf(list) == {Offer(list[i].name, list[i].link, list[i].extracted_price) : i \in DOMAIN list}

ResultOffers(list) ==
    {Offer(list[i].source, list[i].link, list[i].extracted_price) : i \in DOMAIN list}

\* every offer the provider holds: shopping results, the sellers of the
\* product pages and the stores of the immersive pages
ProviderOffers ==
    UNION {ResultOffers(list) : list \in {ListExact, ListMany, ListBroken, ListShelf}}
    \cup UNION {OffersOf(ProductData(id).sellers) : id \in {"p1", "p2", "p3"}}
    \cup UNION {OffersOf(StoresOfToken(t)) : t \in Tokens}

\* the match has the price of the offer and the platform the offer is on
MadeFrom(m, o) ==
    /\ m.price = o.price
    /\ m.platform \in {_extract_platform(o.name, o.link), _extract_platform(o.name, "")}

OfTrustedOffers(matches) ==
    \A i \in DOMAIN matches :
        /\ \E o \in ProviderOffers : MadeFrom(matches[i], o)
        /\ \A o \in ProviderOffers :
              MadeFrom(matches[i], o) => TrustedBy(Strip(Lower(o.name)), o.link)

\* C21: every PriceMatch returned by find_real_prices is made from an offer
\* of the provider whose source name or link host is a trusted source
C21_TrustedOnly ==
    (fr_pc = "done" /\ ~fr_result[1].raised)
    => OfTrustedOffers(fr_result[1].same) /\ OfTrustedOffers(fr_result[1].used)

\* the provider answered with a list that holds an untrusted shop next to
\* trusted ones, and matches are returned
C21_Witness ==
    /\ fr_pc = "done" /\ ~fr_result[1].raised
    /\ fr_call[1][3][1] = "shelf"
    /\ ~TrustedBy(Strip(Lower(RawShady.source)), RawShady.link)
    /\ fr_result[1].same # <<>>

\* the last operation on the cache was a get that Redis gave no value
\* and that found the key in the in-process map
MemoryGet ==
    /\ fn_pc = "cache" /\ fn_call # <<>> /\ fn_call[1].fn = "get"
    /\ ~fn_call[1].seen.redis_hit /\ fn_call[1].seen.in_memory

EntryAge(op) == op.at - op.seen.timestamp[1]

\* C22: CacheService.get never returns an in-process entry as old as the
\* TTL or older: without a value from Redis it removes such an entry from
\* both maps and reports a miss, and it returns a younger entry, the value
\* last set, and leaves it in place
C22_Expiry ==
    MemoryGet
    => IF EntryAge(fn_call[1]) >= ttl_seconds
       THEN /\ fn_result = <<>>
            /\ fn_call[1].key \notin DOMAIN memory_cache
            /\ fn_call[1].key \notin DOMAIN memory_timestamps
       ELSE /\ fn_result = <<prev[fn_call[1].key].value>>
            /\ fn_call[1].key \in DOMAIN memory_cache
            /\ memory_cache[fn_call[1].key] = fn_result[1]
            /\ memory_timestamps[fn_call[1].key] = fn_call[1].seen.timestamp[1]

\* a get finds an entry exactly as old as the TTL
C22_Witness ==
    /\ MemoryGet
    /\ EntryAge(fn_call[1]) = ttl_seconds
    /\ fn_result = <<>>

\* the last operation was a get of a key that was set, and not deleted
\* since, less than the TTL before
GetAfterSet ==
    /\ fn_pc = "cache" /\ fn_call # <<>> /\ fn_call[1].fn = "get"
    /\ fn_call[1].key \in DOMAIN prev
    /\ fn_call[1].at - prev[fn_call[1].key].at < ttl_seconds

\* C28 (as stated): a get issued after set(k, v) and before the TTL is over,
\* with no set or delete of k in between, returns v (as JSON writes it),
\* whether the Redis calls of the sets and of the get succeeded or failed
C28_AsStated ==
    GetAfterSet
    => /\ fn_result # <<>>
       /\ json_dumps(fn_result[1]) = json_dumps(prev[fn_call[1].key].value)

ResolveDone == fn_pc = "done" /\ fn_call[1].fn = "_resolve_search_locations"

\* the country of the first signal the locale carries: a 2-letter country
\* code, else the 2-letter suffix of the language tag, else the timezone
FirstSignal(locale) ==
    IF Len(locale.country) = 2 THEN Lower(locale.country)
    ELSE IF Contains(locale.language, "-") /\ Len(LastPart(locale.language)) = 2
         THEN Lower(LastPart(locale.language))
         ELSE TimezoneCountry(Lower(locale.timezone))

\* C23: _resolve_search_locations returns "us" first and at most one more
\* location, which is a key of the location profiles other than "us" and
\* the country of the first signal of the locale
C23_Locations ==
    ResolveDone
    => /\ Len(fn_result[1]) \in {1, 2}
       /\ fn_result[1][1] = "us"
       /\ Len(fn_result[1]) = 2
          => /\ fn_result[1][2] \in LOCATION_PROFILES \ {"us"}
             /\ Cardinality(LOCATION_PROFILES) = 14
             /\ fn_call[1].user_locale # <<>>
             /\ fn_result[1][2] = FirstSignal(fn_call[1].user_locale[1])

\* no country code, a language tag that names no country, and a timezone
\* that gives the second location
C23_Witness ==
    /\ ResolveDone
    /\ fn_call[1].user_locale # <<>>
    /\ fn_call[1].user_locale[1].country = "USA"
    /\ fn_call[1].user_locale[1].language = "fr-FRA"
    /\ fn_call[1].user_locale[1].timezone = "Europe/London"
    /\ fn_result[1] = <<"us", "gb">>

\* find_real_prices has run over two locations and the first did not raise
TwoLocationsRun ==
    /\ fr_pc = "done" /\ Len(fr_call[1][2]) = 2
    /\ fr_result[1].trace # <<>>

\* len(all_same) when the iteration of the first location ended
LeftByFirst(run) ==
    IF Len(run.trace) = 2 THEN run.trace[2].log.before ELSE Len(run.same)

\* C24: when the first location left at least 5 new matches no query is
\* sent for the second location; when it left fewer, the second location is
\* searched
C24_SkipLocation ==
    (TwoLocationsRun /\ (Len(fr_result[1].trace) = 1 => ~fr_result[1].raised))
    => IF LeftByFirst(fr_result[1]) >= 5
       THEN Len(fr_result[1].trace) = 1
       ELSE /\ Len(fr_result[1].trace) = 2
            /\ fr_result[1].trace[2].loc_idx = 1
            /\ fr_result[1].trace[2].log.calls # {}

\* the first location left 5 or more new matches and the second was not
\* searched although the provider would have answered there
C24_Witness ==
    /\ TwoLocationsRun /\ ~fr_result[1].raised
    /\ Len(fr_result[1].trace) = 1
    /\ Len(fr_result[1].same) >= 5
    /\ fr_call[1][3][2] # "down"

\* the queries of strategy 2, 2b and 2c
LaterSteps == {"brand_model", "sku", "title_direct", "offers_2c"}

\* the iterations of the location loop that ran to their end
CompletedIterations(run) ==
    {i \in DOMAIN run.trace : ~(run.raised /\ i = Len(run.trace))}

\* C25 (as stated): in each searched location the brand+model, SKU and
\* title queries and the second Product API lookup are skipped exactly when
\* the Product API lookup for that location's GTIN results gave at least 3
\* new offers, whatever earlier locations had found
C25_AsStated ==
    fr_pc = "done"
    => \A i \in CompletedIterations(fr_result[1]) :
          (fr_result[1].trace[i].log.calls \cap LaterSteps = {})
          <=> (fr_result[1].trace[i].log.gtin_new >= 3)

NotOnPlatform(matches, platform) ==
    \A i \in DOMAIN matches : matches[i].platform # platform

\* C29 (as stated): when the original listing's platform is given,
\* find_real_prices returns no PriceMatch on that platform, whichever path
\* made the match
C29_AsStated ==
    (fr_pc = "done" /\ ~fr_result[1].raised /\ fr_call[1][1].original_platform # "")
    => /\ NotOnPlatform(fr_result[1].same, fr_call[1][1].original_platform)
       /\ NotOnPlatform(fr_result[1].used, fr_call[1][1].original_platform)

\* what Redis and the in-process map hold under the key
HeldUnder(key) ==
    {json_loads(redis_store[k].data) : k \in DOMAIN redis_store \cap {key}}
    \cup {memory_cache[k] : k \in DOMAIN memory_cache \cap {key}}

\* a /detect-product answered from what the cache held under its key
DetectReadCache == DetectAnswered /\ resp[1].path \in {"cache_hit", "cache_rebuild"}

\* C27 (as stated): what /detect-product reads from the cache under its
\* product key is a {same, similar, used} mapping, and what /search returns
\* as cached results is a result list, also when requests of both kinds
\* carry the same GTIN
C27_AsStated ==
    /\ DetectReadCache
       => \A v \in HeldUnder(build_product_cache_key("", "", req[1].identifiers.gtin, "", "")) :
             v.kind = "dict"
    /\ (SearchAnswered /\ resp[1].cached) => resp[1].results.kind = "list"

\* C30 (as stated): whenever a _set_cached call has returned, the memo
\* holds at most about as many entries as the size at which it prunes
C30_AsStated ==
    (fn_pc = "memo" /\ fn_call # <<>> /\ fn_call[1].fn = "_set_cached")
    => Cardinality(DOMAIN _cache) <= MemoPruneAbove + 1

====
